---------------------------- MODULE Spec2Model ----------------------------
(***************************************************************************)
(* A model of the legacy Bitcoin transaction library in src/app: helper.py *)
(* (little-endian integers, varints, hashes), script.py (Script parse,     *)
(* serialize, evaluate), signature.py (secp256k1 points, ECDSA, DER, SEC)  *)
(* and tx.py (Tx, TxIn, TxOut, TxFetcher).                                 *)
(*                                                                         *)
(* Conventions.                                                            *)
(*  - bytes are sequences of numbers 0..255; a hex string is the sequence  *)
(*    of its nibbles.                                                      *)
(*  - a Python call that may raise is an operator returning a record with  *)
(*    a field err: "ok" for a normal return, otherwise the exception's     *)
(*    class name.                                                          *)
(*  - a Script is its command list; a command is a record with field op    *)
(*    (the opcode, or NoOp for a data element) and field data.             *)
(*  - TLC's integers are 32-bit, so the 256-bit curve parameters are       *)
(*    replaced by those of the curve y^2 = x^3 + 7 over F_43, whose group  *)
(*    has prime order 31, and SHA-256 / RIPEMD-160 / HMAC are replaced by  *)
(*    small stand-ins (see hash256, hash160, deterministic_k).             *)
(***************************************************************************)
EXTENDS Integers, Sequences, FiniteSets, TLC

VARIABLES
    tx,         \* the transaction under construction / verification (a Tx)
    cache,      \* TxFetcher.cache: hex txid -> Tx
    script,     \* a Script object (its cmds)
    stream,     \* the bytes last produced or about to be parsed
    secret,     \* PrivateKey.secret
    z,          \* the message hash last signed
    sig,        \* the Signature last produced
    hmac,       \* the HMAC answers given so far: <<secret, z>> -> candidate
    ev,         \* the local variables of a running loop (Script.evaluate,
                \* Point.__rmul__), or of each thread inside TxFetcher.fetch
    call,       \* the name of the last call
    args,       \* the arguments of the last call, the objects it works on, or
                \* the requests sent to the servers
    ret         \* the outcome of the last call

vars == <<tx, cache, script, stream, secret, z, sig, hmac, ev, call, args, ret>>

-----------------------------------------------------------------------------
(* helper.py                                                               *)

Min(a, b) == IF a < b THEN a ELSE b

RECURSIVE Reverse(_)
Reverse(s) == IF s = <<>> THEN <<>> ELSE Reverse(Tail(s)) \o <<Head(s)>>

\* n.to_bytes(length, "little"); every n of the model fits its length
RECURSIVE int_to_little_endian(_, _)
int_to_little_endian(n, length) ==
    IF length = 0 THEN <<>>
    ELSE <<n % 256>> \o int_to_little_endian(n \div 256, length - 1)

\* int.from_bytes(b, "little"); the empty string is 0
RECURSIVE little_endian_to_int(_)
little_endian_to_int(b) ==
    IF b = <<>> THEN 0 ELSE Head(b) + 256 * little_endian_to_int(Tail(b))

\* n.to_bytes(length, "big") and int.from_bytes(b, "big")
to_bytes_big(n, length) == Reverse(int_to_little_endian(n, length))
from_bytes_big(b) == little_endian_to_int(Reverse(b))

\* io.BytesIO: the buffer and the read position
Stream(b) == [buf |-> b, pos |-> 0]

\* s.read(n) returns at most n bytes, fewer at the end of the stream
ReadBytes(s, n) == SubSeq(s.buf, s.pos + 1, Min(s.pos + n, Len(s.buf)))
ReadAdvance(s, n) == [s EXCEPT !.pos = Min(s.pos + n, Len(s.buf))]

VarintClass(i) == CASE i = 253 -> 2 [] i = 254 -> 4 [] i = 255 -> 8 [] OTHER -> 0

\* read_varint: s.read(1)[0] raises IndexError at the end of the stream
read_varint(s) ==
    LET first == ReadBytes(s, 1)
        s1    == ReadAdvance(s, 1)
    IN  IF first = <<>> THEN [err |-> "IndexError", val |-> 0, s |-> s1]
        ELSE IF VarintClass(first[1]) # 0
             THEN [err |-> "ok",
                   val |-> little_endian_to_int(ReadBytes(s1, VarintClass(first[1]))),
                   s   |-> ReadAdvance(s1, VarintClass(first[1]))]
             ELSE [err |-> "ok", val |-> first[1], s |-> s1]

\* encode_varint; the numbers of the model are below 2^31, so the 8-byte
\* form and the "integer too large" error are out of reach
encode_varint(i) ==
    IF i < 253 THEN <<i>>
    ELSE IF i < 65536 THEN <<253>> \o int_to_little_endian(i, 2)
    ELSE <<254>> \o int_to_little_endian(i, 4)

-----------------------------------------------------------------------------
(* script.py: commands, parse, serialize                                   *)

NoOp == 0 - 1
OpCmd(n) == [op |-> n, data |-> <<>>]
DataCmd(b) == [op |-> NoOp, data |-> b]
IsOp(cmd) == cmd.op # NoOp      \* type(cmd) == int

\* the loop of Script.parse: cmds so far, count of bytes consumed
RECURSIVE Script_parse_loop(_, _, _, _)
Script_parse_loop(s, length, count, cmds) ==
    IF ~(count < length) THEN [err |-> "ok", cmds |-> cmds, count |-> count, s |-> s]
    ELSE
      LET current == ReadBytes(s, 1)
          s1      == ReadAdvance(s, 1)
      IN  IF current = <<>>
          THEN [err |-> "IndexError", cmds |-> cmds, count |-> count, s |-> s1]
          ELSE
            LET b == current[1]
            IN  IF b >= 1 /\ b <= 75
                THEN Script_parse_loop(ReadAdvance(s1, b), length, count + 1 + b,
                                       Append(cmds, DataCmd(ReadBytes(s1, b))))
                ELSE IF b = 76
                THEN LET n  == little_endian_to_int(ReadBytes(s1, 1))
                         s2 == ReadAdvance(s1, 1)
                     IN  Script_parse_loop(ReadAdvance(s2, n), length,
                                           count + 1 + n + 1,
                                           Append(cmds, DataCmd(ReadBytes(s2, n))))
                ELSE IF b = 77
                THEN LET n  == little_endian_to_int(ReadBytes(s1, 2))
                         s2 == ReadAdvance(s1, 2)
                     IN  Script_parse_loop(ReadAdvance(s2, n), length,
                                           count + 1 + n + 2,
                                           Append(cmds, DataCmd(ReadBytes(s2, n))))
                ELSE Script_parse_loop(s1, length, count + 1, Append(cmds, OpCmd(b)))

\* what Script.parse does when the loop ends with count != length: the
\* statement there is the bare expression ("parsing script failed")
Script_parse_mismatch(r) == r

\* Script.parse(s): the varint length, the loop, the final check
Script_parse(s) ==
    LET Body(len) ==
          IF len.err # "ok"
          THEN [err |-> len.err, cmds |-> <<>>, count |-> 0, s |-> len.s]
          ELSE LET Check(r) == IF r.err = "ok" /\ r.count # len.val
                               THEN Script_parse_mismatch(r)
                               ELSE r
               IN  Check(Script_parse_loop(len.s, len.val, 0, <<>>))
    IN  Body(read_varint(s))

\* the length prefix raw_serialize writes before a data element
PushPrefix(length) ==
    IF length < 75
    THEN [err |-> "ok", val |-> int_to_little_endian(length, 1)]
    ELSE IF length < 75 /\ length < 256
    THEN [err |-> "ok",
          val |-> int_to_little_endian(76, 1) \o int_to_little_endian(length, 1)]
    ELSE IF length >= 256 /\ length <= 520
    THEN [err |-> "ok",
          val |-> int_to_little_endian(77, 1) \o int_to_little_endian(length, 2)]
    ELSE [err |-> "ValueError", val |-> <<>>]

RECURSIVE Script_raw_serialize(_)
Script_raw_serialize(cmds) ==
    IF cmds = <<>> THEN [err |-> "ok", val |-> <<>>]
    ELSE LET cmd  == Head(cmds)
             this == IF IsOp(cmd)
                     THEN [err |-> "ok", val |-> int_to_little_endian(cmd.op, 1)]
                     ELSE LET p == PushPrefix(Len(cmd.data))
                          IN  [err |-> p.err, val |-> p.val \o cmd.data]
             rest == Script_raw_serialize(Tail(cmds))
         IN  IF this.err # "ok" THEN [err |-> this.err, val |-> <<>>]
             ELSE IF rest.err # "ok" THEN [err |-> rest.err, val |-> <<>>]
             ELSE [err |-> "ok", val |-> this.val \o rest.val]

Script_serialize(cmds) ==
    LET Body(raw) ==
          IF raw.err # "ok" THEN raw
          ELSE [err |-> "ok", val |-> encode_varint(Len(raw.val)) \o raw.val]
    IN  Body(Script_raw_serialize(cmds))

\* Script.__add__
Script_add(a, b) == a \o b

\* p2pkh_script(h160)
p2pkh_script(h160) ==
    <<OpCmd(118), OpCmd(169), DataCmd(h160), OpCmd(136), OpCmd(172)>>

-----------------------------------------------------------------------------
(* tx.py: TxIn, TxOut, Tx -- the data model, serialize and parse           *)

TxIdLen == 32       \* bytes of a transaction hash: s.read(32)

TxIn(prev_tx, prev_index, script_sig, sequence) ==
    [prev_tx |-> prev_tx, prev_index |-> prev_index,
     script_sig |-> script_sig, sequence |-> sequence]

TxOut(amount, script_pubkey) == [amount |-> amount, script_pubkey |-> script_pubkey]

Tx(version, tx_ins, tx_outs, locktime, testnet) ==
    [version |-> version, tx_ins |-> tx_ins, tx_outs |-> tx_outs,
     locktime |-> locktime, testnet |-> testnet]

NoneTx == Tx(0, <<>>, <<>>, 0, FALSE)     \* stands for "no transaction"

TxIn_serialize(tx_in) ==
    LET Body(sc) ==
          IF sc.err # "ok" THEN sc
          ELSE [err |-> "ok",
                val |-> Reverse(tx_in.prev_tx)
                        \o int_to_little_endian(tx_in.prev_index, 4)
                        \o sc.val
                        \o int_to_little_endian(tx_in.sequence, 4)]
    IN  Body(Script_serialize(tx_in.script_sig))

TxOut_serialize(tx_out) ==
    LET Body(sc) ==
          IF sc.err # "ok" THEN sc
          ELSE [err |-> "ok", val |-> int_to_little_endian(tx_out.amount, 8) \o sc.val]
    IN  Body(Script_serialize(tx_out.script_pubkey))

\* result += x.serialize() for x in a list; the first exception ends the loop
RECURSIVE SerializeAll(_, _)
SerializeAll(items, isIn) ==
    IF items = <<>> THEN [err |-> "ok", val |-> <<>>]
    ELSE LET Body(this) ==
               IF this.err # "ok" THEN this
               ELSE LET Rest(rest) ==
                          IF rest.err # "ok" THEN rest
                          ELSE [err |-> "ok", val |-> this.val \o rest.val]
                    IN  Rest(SerializeAll(Tail(items), isIn))
         IN  Body(IF isIn THEN TxIn_serialize(Head(items))
                  ELSE TxOut_serialize(Head(items)))

Tx_serialize(t) ==
    LET Body(ins, outs) ==
          IF ins.err # "ok" THEN ins
          ELSE IF outs.err # "ok" THEN outs
          ELSE [err |-> "ok",
                val |-> int_to_little_endian(t.version, 4)
                        \o encode_varint(Len(t.tx_ins)) \o ins.val
                        \o encode_varint(Len(t.tx_outs)) \o outs.val
                        \o int_to_little_endian(t.locktime, 4)]
    IN  Body(SerializeAll(t.tx_ins, TRUE), SerializeAll(t.tx_outs, FALSE))

TxIn_parse(s) ==
    LET prev_tx    == Reverse(ReadBytes(s, TxIdLen))
        s1         == ReadAdvance(s, TxIdLen)
        prev_index == little_endian_to_int(ReadBytes(s1, 4))
        Body(sc)   ==
          IF sc.err # "ok" THEN [err |-> sc.err, val |-> NoneTx, s |-> sc.s]
          ELSE [err |-> "ok",
                val |-> TxIn(prev_tx, prev_index, sc.cmds,
                             little_endian_to_int(ReadBytes(sc.s, 4))),
                s |-> ReadAdvance(sc.s, 4)]
    IN  Body(Script_parse(ReadAdvance(s1, 4)))

TxOut_parse(s) ==
    LET amount   == little_endian_to_int(ReadBytes(s, 8))
        Body(sc) ==
          IF sc.err # "ok" THEN [err |-> sc.err, val |-> NoneTx, s |-> sc.s]
          ELSE [err |-> "ok", val |-> TxOut(amount, sc.cmds), s |-> sc.s]
    IN  Body(Script_parse(ReadAdvance(s, 8)))

\* for _ in range(n): items.append(X.parse(stream))
RECURSIVE ParseAll(_, _, _, _)
ParseAll(s, n, isIn, items) ==
    IF n <= 0 THEN [err |-> "ok", val |-> items, s |-> s]
    ELSE LET Body(this) ==
               IF this.err # "ok" THEN [err |-> this.err, val |-> <<>>, s |-> this.s]
               ELSE ParseAll(this.s, n - 1, isIn, Append(items, this.val))
         IN  Body(IF isIn THEN TxIn_parse(s) ELSE TxOut_parse(s))

\* Tx.parse(stream, testnet): the result is built with testnet False
Tx_parse(s, testnet) ==
    LET version == little_endian_to_int(ReadBytes(s, 4))
        Failed(r) == [err |-> r.err, val |-> NoneTx, s |-> r.s]
        Outs(ins, outs) ==
          IF outs.err # "ok" THEN Failed(outs)
          ELSE [err |-> "ok",
                val |-> Tx(version, ins.val, outs.val,
                           little_endian_to_int(ReadBytes(outs.s, 4)), FALSE),
                s |-> ReadAdvance(outs.s, 4)]
        NOut(ins, nout) ==
          IF nout.err # "ok" THEN Failed(nout)
          ELSE Outs(ins, ParseAll(nout.s, nout.val, FALSE, <<>>))
        Ins(ins) ==
          IF ins.err # "ok" THEN Failed(ins)
          ELSE NOut(ins, read_varint(ins.s))
        NIn(nin) ==
          IF nin.err # "ok" THEN Failed(nin)
          ELSE Ins(ParseAll(nin.s, nin.val, TRUE, <<>>))
    IN  NIn(read_varint(ReadAdvance(s, 4)))

-----------------------------------------------------------------------------
(* helper.py: the hashes.  SHA-256 and RIPEMD-160 are replaced by a        *)
(* polynomial hash of the input modulo HashRange, written in the low bytes *)
(* of a digest of the real length.                                         *)

HashRange == 32749      \* number of distinct digests of the stand-in

\* the hash of b[lo..hi] and mult^(hi-lo+1), both modulo HashRange
RECURSIVE PolyHash(_, _, _, _)
PolyHash(b, lo, hi, mult) ==
    IF lo > hi THEN [h |-> 0, p |-> 1]
    ELSE IF lo = hi THEN [h |-> (b[lo] + 1) % HashRange, p |-> mult % HashRange]
    ELSE LET Join(left, right) ==
               [h |-> (left.h * right.p + right.h) % HashRange,
                p |-> (left.p * right.p) % HashRange]
         IN  Join(PolyHash(b, lo, (lo + hi) \div 2, mult),
                  PolyHash(b, (lo + hi) \div 2 + 1, hi, mult))

Fold(b, seed, mult) ==
    LET Body(r) == (seed * r.p + r.h) % HashRange
    IN  Body(PolyHash(b, 1, Len(b), mult))

sha256(b)    == to_bytes_big(Fold(b, 7, 31), 32)
ripemd160(b) == to_bytes_big(Fold(b, 11, 37), 20)
hash256(b) == sha256(sha256(b))
hash160(b) == ripemd160(sha256(b))

\* bytes.hex() and bytes.fromhex(): two nibbles per byte
RECURSIVE hex(_)
hex(b) == IF b = <<>> THEN <<>>
          ELSE <<Head(b) \div 16, Head(b) % 16>> \o hex(Tail(b))

RECURSIVE fromhex(_)
fromhex(h) == IF Len(h) < 2 THEN <<>>
              ELSE <<16 * h[1] + h[2]>> \o fromhex(SubSeq(h, 3, Len(h)))

-----------------------------------------------------------------------------
(* fieldelement.py                                                         *)

FieldElement(num, prime) == [num |-> num, prime |-> prime]

\* FieldElement.__init__(num, prime): ValueError outside [0, prime)
FieldElement_init(num, prime) ==
    [err |-> IF num >= prime \/ num < 0 THEN "ValueError" ELSE "ok",
     val |-> FieldElement(num, prime)]

\* a binary operator of FieldElement: TypeError for operands of different
\* fields, otherwise self.__class__(num, self.prime) of the number r holds
FieldElement_binary(a, b, r) ==
    IF a.prime # b.prime THEN [err |-> "TypeError", val |-> a]
    ELSE FieldElement_init(r.num, r.prime)

\* pow(b, e, m) for integers, e >= 0
RECURSIVE ModPow(_, _, _)
ModPow(b, e, m) ==
    IF e = 0 THEN 1 % m
    ELSE LET h == ModPow(b, e \div 2, m)
         IN  IF e % 2 = 0 THEN (h * h) % m ELSE (((h * h) % m) * b) % m

FieldElement_add(a, b) == FieldElement((a.num + b.num) % a.prime, a.prime)
FieldElement_sub(a, b) == FieldElement((a.num - b.num) % a.prime, a.prime)
FieldElement_mul(a, b) == FieldElement((a.num * b.num) % a.prime, a.prime)
FieldElement_pow(a, exponent) ==
    FieldElement(ModPow(a.num, exponent % (a.prime - 1), a.prime), a.prime)
\* a division that multiplies by the (prime - 1)th power of the divisor
FieldElement_truediv_ByOne(a, b) ==
    FieldElement((a.num * ModPow(b.num, a.prime - 1, a.prime)) % a.prime, a.prime)

FieldElement_truediv(a, b) ==
    FieldElement((a.num * ModPow(b.num, a.prime - 2, a.prime)) % a.prime, a.prime)
\* an integer-coefficient multiplication that keeps the product as it is
FieldElement_rmul_Unreduced(a, coefficient) ==
    FieldElement(a.num * coefficient, a.prime)

FieldElement_rmul(a, coefficient) ==
    FieldElement((a.num * coefficient) % a.prime, a.prime)

-----------------------------------------------------------------------------
(* signature.py: the curve.  The source's P, N and G are 256-bit numbers;  *)
(* the model keeps A and B and takes the field of 43 elements, over which  *)
(* y^2 = x^3 + 7 has a group of prime order 31 generated by (2, 12).       *)

A == 0
B == 7
P == 43
N == 31
Gx == 2
Gy == 12

S256Field(num) == FieldElement(num, P)

\* S256Field.sqrt: the exponent (P + 1) / 4 is a true division, a float,
\* and pow(int, float, int) raises TypeError
S256Field_sqrt(a) == [err |-> "TypeError", val |-> a]

-----------------------------------------------------------------------------
(* point.py                                                                *)

\* y**2 != x**3 + a * x + b
OnCurve(x, y, a, b) ==
    FieldElement_pow(y, 2)
      = FieldElement_add(FieldElement_add(FieldElement_pow(x, 3),
                                          FieldElement_mul(a, x)), b)

\* Point.__init__ for a finite point: ValueError when off the curve
Point(x, y, a, b) ==
    [err |-> IF OnCurve(x, y, a, b) THEN "ok" ELSE "ValueError",
     inf |-> FALSE, x |-> x, y |-> y, a |-> a, b |-> b]

\* Point(None, None, a, b)
Infinity(a, b) ==
    [err |-> "ok", inf |-> TRUE, x |-> a, y |-> a, a |-> a, b |-> b]

Point_eq(p, q) ==
    /\ p.inf = q.inf
    /\ (~p.inf => p.x = q.x /\ p.y = q.y)
    /\ p.a = q.a /\ p.b = q.b

\* an addition without the case of the vertical tangent (self == other and
\* self.y == 0 * self.x)
Point_add_NoVertical(p, q) ==
    IF p.err # "ok" THEN p
    ELSE IF q.err # "ok" THEN q
    ELSE IF p.a # q.a \/ p.b # q.b THEN [p EXCEPT !.err = "TypeError"]
    ELSE IF p.inf THEN q
    ELSE IF q.inf THEN p
    ELSE IF p.x = q.x /\ p.y # q.y THEN Infinity(p.a, p.b)
    ELSE IF p.x # q.x
    THEN LET s == FieldElement_truediv(FieldElement_sub(q.y, p.y),
                                       FieldElement_sub(q.x, p.x))
             x == FieldElement_sub(FieldElement_sub(FieldElement_pow(s, 2), p.x), q.x)
             y == FieldElement_sub(FieldElement_mul(s, FieldElement_sub(p.x, x)), p.y)
         IN  Point(x, y, p.a, p.b)
    ELSE LET s == FieldElement_truediv(
                      FieldElement_add(FieldElement_rmul(FieldElement_pow(p.x, 2), 3),
                                       p.a),
                      FieldElement_rmul(p.y, 2))
             x == FieldElement_sub(FieldElement_pow(s, 2), FieldElement_rmul(p.x, 2))
             y == FieldElement_sub(FieldElement_mul(s, FieldElement_sub(p.x, x)), p.y)
         IN  Point(x, y, p.a, p.b)

Point_add(p, q) ==
    IF p.err # "ok" THEN p
    ELSE IF q.err # "ok" THEN q
    ELSE IF p.a # q.a \/ p.b # q.b THEN [p EXCEPT !.err = "TypeError"]
    ELSE IF p.inf THEN q
    ELSE IF q.inf THEN p
    ELSE IF p.x = q.x /\ p.y # q.y THEN Infinity(p.a, p.b)
    ELSE IF p.x # q.x
    THEN LET s == FieldElement_truediv(FieldElement_sub(q.y, p.y),
                                       FieldElement_sub(q.x, p.x))
             x == FieldElement_sub(FieldElement_sub(FieldElement_pow(s, 2), p.x), q.x)
             y == FieldElement_sub(FieldElement_mul(s, FieldElement_sub(p.x, x)), p.y)
         IN  Point(x, y, p.a, p.b)
    ELSE IF Point_eq(p, q) /\ p.y = FieldElement_rmul(p.x, 0)
    THEN Infinity(p.a, p.b)
    ELSE IF Point_eq(p, q)
    THEN LET s == FieldElement_truediv(
                      FieldElement_add(FieldElement_rmul(FieldElement_pow(p.x, 2), 3),
                                       p.a),
                      FieldElement_rmul(p.y, 2))
             x == FieldElement_sub(FieldElement_pow(s, 2), FieldElement_rmul(p.x, 2))
             y == FieldElement_sub(FieldElement_mul(s, FieldElement_sub(p.x, x)), p.y)
         IN  Point(x, y, p.a, p.b)
    ELSE Infinity(p.a, p.b)

\* Point.__rmul__: double-and-add, least significant bit first
RECURSIVE Point_rmul_loop(_, _, _)
Point_rmul_loop(coef, current, result) ==
    IF coef = 0 THEN result
    ELSE Point_rmul_loop(coef \div 2, Point_add(current, current),
                         IF coef % 2 = 1 THEN Point_add(result, current) ELSE result)

Point_rmul(p, coefficient) == Point_rmul_loop(coefficient, p, Infinity(p.a, p.b))

\* a turn of the loop that adds current to result but does not double it
Point_rmul_step_NoDouble(f) ==
    [f EXCEPT !.result = IF f.coef % 2 = 1 THEN Point_add(f.result, f.current)
                         ELSE f.result,
              !.coef = f.coef \div 2]

\* one turn of the "while coef" loop of Point.__rmul__ on its local
\* variables coef, current and result
Point_rmul_step(f) ==
    [f EXCEPT !.result = IF f.coef % 2 = 1 THEN Point_add(f.result, f.current)
                         ELSE f.result,
              !.current = Point_add(f.current, f.current),
              !.coef = f.coef \div 2]

-----------------------------------------------------------------------------
(* signature.py: S256Point, Signature, PrivateKey                          *)

\* S256Point(x, y) from integers: S256Field rejects a coordinate outside [0, P)
S256Point(x, y) ==
    IF x < 0 \/ x >= P \/ y < 0 \/ y >= P
    THEN [Infinity(S256Field(A), S256Field(B)) EXCEPT !.err = "ValueError"]
    ELSE Point(S256Field(x), S256Field(y), S256Field(A), S256Field(B))

G == S256Point(Gx, Gy)

S256Point_rmul(p, coefficient) == Point_rmul(p, coefficient % N)

PyNone == 0 - 1         \* the value None where the source expects an int

Signature(r, s) == [r |-> r, s |-> s]

\* S256Point.verify(z, sig): True / False, or the exception raised
S256Point_verify(p, zz, sg) ==
    IF sg.s = PyNone \/ sg.r = PyNone THEN [err |-> "TypeError", val |-> FALSE]
    ELSE LET s_inv == ModPow(sg.s, N - 2, N)
             u     == (zz * s_inv) % N
             v     == (sg.r * s_inv) % N
             Body(total) ==
               IF total.err # "ok" THEN [err |-> total.err, val |-> FALSE]
               ELSE IF total.inf THEN [err |-> "AttributeError", val |-> FALSE]
               ELSE [err |-> "ok", val |-> (total.x.num = sg.r)]
         IN  Body(Point_add(S256Point_rmul(G, u), S256Point_rmul(p, v)))

\* bytes.lstrip(b"\x00")
RECURSIVE lstrip0(_)
lstrip0(b) == IF b # <<>> /\ Head(b) = 0 THEN lstrip0(Tail(b)) ELSE b

\* one integer of Signature.der as the source computes it: the stripped
\* bytes, with 0x00 in front when the top bit of the first byte is set
DerInt(b) == IF b[1] >= 128 THEN <<0>> \o b ELSE b

\* Signature.der(): the second integer is built from rbin, not from sbin,
\* and its length byte is len(rbin)
Signature_der(sg) ==
    LET rstrip == lstrip0(to_bytes_big(sg.r, 32))
    IN  IF rstrip = <<>> THEN [err |-> "IndexError", val |-> <<>>]
        ELSE LET rbin   == DerInt(rstrip)
                 sbin   == DerInt(lstrip0(rbin))
                 result == <<2, Len(rbin)>> \o rbin \o <<2, Len(rbin)>> \o sbin
             IN  [err |-> "ok", val |-> <<48, Len(result)>> \o result]

\* Signature.parse(s): returns Signature(None, None) whatever the input
Signature_parse(der) == Signature(PyNone, PyNone)

\* S256Point.sec(compressed)
S256Point_sec(p, compressed) ==
    IF compressed
    THEN (IF p.y.num % 2 = 0 THEN <<2>> ELSE <<3>>) \o to_bytes_big(p.x.num, 32)
    ELSE <<4>> \o to_bytes_big(p.x.num, 32) \o to_bytes_big(p.y.num, 32)

\* S256Point.parse(sec_bin).  In the compressed form the source binds
\* odd_beta only when beta is even (the other branch assigns even_beta
\* twice), so an odd beta with prefix 0x03 is an UnboundLocalError.
S256Point_parse(sec_bin) ==
    IF sec_bin = <<>> THEN [Infinity(S256Field(A), S256Field(B)) EXCEPT !.err = "IndexError"]
    ELSE IF sec_bin[1] = 4
    THEN S256Point(from_bytes_big(SubSeq(sec_bin, 2, 33)),
                   from_bytes_big(SubSeq(sec_bin, 34, 65)))
    ELSE
      LET is_even == (sec_bin[1] = 2)
          xn      == from_bytes_big(Tail(sec_bin))
      IN  IF xn >= P
          THEN [Infinity(S256Field(A), S256Field(B)) EXCEPT !.err = "ValueError"]
          ELSE
            LET x     == S256Field(xn)
                alpha == FieldElement_add(FieldElement_pow(x, 3), S256Field(B))
                beta  == S256Field_sqrt(alpha)
            IN  IF beta.err # "ok"
                THEN [Infinity(S256Field(A), S256Field(B)) EXCEPT !.err = beta.err]
                ELSE IF beta.val.num % 2 = 0
                THEN (IF is_even
                      THEN Point(x, beta.val, S256Field(A), S256Field(B))
                      ELSE Point(x, S256Field(P - beta.val.num),
                                 S256Field(A), S256Field(B)))
                ELSE (IF is_even
                      THEN Point(x, beta.val, S256Field(A), S256Field(B))
                      ELSE [Infinity(S256Field(A), S256Field(B))
                               EXCEPT !.err = "UnboundLocalError"])

\* S256Point.hash160(compressed)
S256Point_hash160(p, compressed) == hash160(S256Point_sec(p, compressed))

\* PrivateKey.__init__: the public point secret * G
PrivateKey_point(e) == S256Point_rmul(G, e)

\* deterministic_k(z): the value fed to the HMAC steps is z, less N when z > N
HmacInput(e, zz) == <<e, IF zz > N THEN zz - N ELSE zz>>

\* The HMAC-SHA256 chain is a fixed function of its input that the model
\* does not compute: the first time an input is seen any candidate the
\* rejection loop lets through (1 <= candidate < N) may come out, and the
\* same input gives the same candidate ever after.
deterministic_k(h, e, zz) ==
    IF HmacInput(e, zz) \in DOMAIN h THEN {h[HmacInput(e, zz)]} ELSE 1 .. (N - 1)

Remember(h, e, zz, k) ==
    [i \in DOMAIN h \cup {HmacInput(e, zz)} |->
        IF i = HmacInput(e, zz) THEN k ELSE h[i]]

\* s > N / 2: N / 2 is a float; for the N of the model the comparison is exact
AboveHalfN(s) == 2 * s > N

\* PrivateKey.sign(z) once deterministic_k has returned k
PrivateKey_sign(e, zz, k) ==
    LET k_inv   == ModPow(k, N - 2, N)
        Low(r, s) == Signature(r, IF AboveHalfN(s) THEN N - s ELSE s)
        Body(r) == Low(r, ((zz + r * e) * k_inv) % N)
    IN  Body(S256Point_rmul(G, k).x.num)

-----------------------------------------------------------------------------
(* The opcode handlers of the module op, which script.py imports.  A       *)
(* handler gets the main stack and, by its opcode, the remaining commands, *)
(* the alt stack or z; it returns True or False, or raises.                *)

Handled(ok, stack, cmds, altstack) ==
    [ret |-> ok, err |-> "ok", stack |-> stack, cmds |-> cmds, altstack |-> altstack]

Raised(exc, stack, cmds, altstack) ==
    [ret |-> FALSE, err |-> exc, stack |-> stack, cmds |-> cmds, altstack |-> altstack]

Top(stack) == stack[Len(stack)]
Pop(stack) == SubSeq(stack, 1, Len(stack) - 1)

\* encode_num(0) is the empty string, encode_num(1) is the byte 1
encode_num(n) == IF n = 0 THEN <<>> ELSE <<n>>

\* decode_num(element) == 0: no bytes, or zero bytes with an optional sign bit
IsZeroNum(b) ==
    \A i \in 1 .. Len(b) : b[i] = 0 \/ (i = Len(b) /\ b[i] = 128)

op_0(stack) == Handled(TRUE, Append(stack, encode_num(0)), <<>>, <<>>)
op_1(stack) == Handled(TRUE, Append(stack, encode_num(1)), <<>>, <<>>)

op_verify(stack) ==
    IF Len(stack) < 1 THEN Handled(FALSE, stack, <<>>, <<>>)
    ELSE Handled(~IsZeroNum(Top(stack)), Pop(stack), <<>>, <<>>)

op_dup(stack) ==
    IF Len(stack) < 1 THEN Handled(FALSE, stack, <<>>, <<>>)
    ELSE Handled(TRUE, Append(stack, Top(stack)), <<>>, <<>>)

op_equal(stack) ==
    IF Len(stack) < 2 THEN Handled(FALSE, stack, <<>>, <<>>)
    ELSE Handled(TRUE,
                 Append(Pop(Pop(stack)),
                        encode_num(IF Top(stack) = Top(Pop(stack)) THEN 1 ELSE 0)),
                 <<>>, <<>>)

op_equalverify(stack) ==
    LET eq == op_equal(stack)
    IN  IF eq.ret THEN op_verify(eq.stack) ELSE eq

op_hash160(stack) ==
    IF Len(stack) < 1 THEN Handled(FALSE, stack, <<>>, <<>>)
    ELSE Handled(TRUE, Append(Pop(stack), hash160(Top(stack))), <<>>, <<>>)

op_toaltstack(stack, altstack) ==
    IF Len(stack) < 1 THEN Handled(FALSE, stack, <<>>, altstack)
    ELSE Handled(TRUE, Pop(stack), <<>>, Append(altstack, Top(stack)))

op_fromaltstack(stack, altstack) ==
    IF Len(altstack) < 1 THEN Handled(FALSE, stack, <<>>, altstack)
    ELSE Handled(TRUE, Append(stack, Top(altstack)), <<>>, Pop(altstack))

\* the scan of op_if / op_notif for the branch bodies up to the matching
\* OP_ENDIF (104), split at OP_ELSE (103)
RECURSIVE IfScan(_, _, _, _, _)
IfScan(items, true_items, false_items, inElse, endifs) ==
    IF items = <<>>
    THEN [found |-> FALSE, t |-> true_items, f |-> false_items, rest |-> items]
    ELSE
      LET item == Head(items)
          add(x) == IF inElse
                    THEN IfScan(Tail(items), true_items, Append(false_items, x),
                                inElse, endifs)
                    ELSE IfScan(Tail(items), Append(true_items, x), false_items,
                                inElse, endifs)
      IN  IF item.op \in {99, 100}
          THEN (IF inElse
                THEN IfScan(Tail(items), true_items, Append(false_items, item),
                            inElse, endifs + 1)
                ELSE IfScan(Tail(items), Append(true_items, item), false_items,
                            inElse, endifs + 1))
          ELSE IF endifs = 1 /\ item.op = 103
          THEN IfScan(Tail(items), true_items, false_items, TRUE, endifs)
          ELSE IF item.op = 104
          THEN (IF endifs = 1
                THEN [found |-> TRUE, t |-> true_items, f |-> false_items,
                      rest |-> Tail(items)]
                ELSE (IF inElse
                      THEN IfScan(Tail(items), true_items, Append(false_items, item),
                                  inElse, endifs - 1)
                      ELSE IfScan(Tail(items), Append(true_items, item), false_items,
                                  inElse, endifs - 1)))
          ELSE add(item)

op_if(stack, items) ==
    IF Len(stack) < 1 THEN Handled(FALSE, stack, items, <<>>)
    ELSE LET sc == IfScan(items, <<>>, <<>>, FALSE, 1)
         IN  IF ~sc.found THEN Handled(FALSE, stack, sc.rest, <<>>)
             ELSE Handled(TRUE, Pop(stack),
                          (IF IsZeroNum(Top(stack)) THEN sc.f ELSE sc.t) \o sc.rest,
                          <<>>)

op_notif(stack, items) ==
    IF Len(stack) < 1 THEN Handled(FALSE, stack, items, <<>>)
    ELSE LET sc == IfScan(items, <<>>, <<>>, FALSE, 1)
         IN  IF ~sc.found THEN Handled(FALSE, stack, sc.rest, <<>>)
             ELSE Handled(TRUE, Pop(stack),
                          (IF IsZeroNum(Top(stack)) THEN sc.t ELSE sc.f) \o sc.rest,
                          <<>>)

\* op_checksig(stack, z): the public key is parsed with S256Point.parse and
\* the signature, less its hash-type byte, with Signature.parse; a
\* ValueError of either parse is a failure, any other exception propagates
op_checksig(stack, zz) ==
    IF Len(stack) < 2 THEN Handled(FALSE, stack, <<>>, <<>>)
    ELSE
      LET sec_pubkey    == Top(stack)
          withType      == Top(Pop(stack))
          der_signature == SubSeq(withType, 1, Len(withType) - 1)
          rest          == Pop(Pop(stack))
          Verified(v)   ==
            IF v.err # "ok" THEN Raised(v.err, rest, <<>>, <<>>)
            ELSE Handled(TRUE, Append(rest, encode_num(IF v.val THEN 1 ELSE 0)),
                         <<>>, <<>>)
          Body(point, sg) ==
            IF point.err = "ValueError" THEN Handled(FALSE, rest, <<>>, <<>>)
            ELSE IF point.err # "ok" THEN Raised(point.err, rest, <<>>, <<>>)
            ELSE Verified(S256Point_verify(point, zz, sg))
      IN  Body(S256Point_parse(sec_pubkey), Signature_parse(der_signature))

\* the keys of OP_CODE_FUNCTIONS the model knows
OP_CODE_FUNCTIONS ==
    {0, 81, 99, 100, 105, 107, 108, 118, 135, 136, 169, 172}

-----------------------------------------------------------------------------
(* script.py: Script.evaluate                                              *)

\* cmds = self.cmds[:]; stack = []; altstack = [].  failed and ran are
\* history: whether a handler has returned False, and how many commands
\* have been taken off the list.
EvalStart(cmds) ==
    [cmds |-> cmds, stack |-> <<>>, altstack |-> <<>>, state |-> "run",
     failed |-> FALSE, ran |-> 0]

\* operation(...) for an opcode, by the class evaluate puts the opcode in
Dispatch(op, stack, cmds, altstack, zz) ==
    IF op \in {99, 100}
    THEN (IF op = 99 THEN op_if(stack, cmds) ELSE op_notif(stack, cmds))
    ELSE IF op \in {107, 108}
    THEN [(IF op = 107 THEN op_toaltstack(stack, altstack)
           ELSE op_fromaltstack(stack, altstack)) EXCEPT !.cmds = cmds]
    ELSE IF op \in {172, 173, 174, 175}
    THEN [op_checksig(stack, zz) EXCEPT !.cmds = cmds, !.altstack = altstack]
    ELSE [(CASE op = 0   -> op_0(stack)
             [] op = 81  -> op_1(stack)
             [] op = 105 -> op_verify(stack)
             [] op = 118 -> op_dup(stack)
             [] op = 135 -> op_equal(stack)
             [] op = 136 -> op_equalverify(stack)
             [] OTHER    -> op_hash160(stack))
          EXCEPT !.cmds = cmds, !.altstack = altstack]

\* an evaluate that would go on after a handler has returned False
AfterFailure_GoOn(e) == e

\* what evaluate does when a handler has returned False: return False
AfterFailure(e) == [e EXCEPT !.state = "False"]

\* the checks after the loop: an empty stack or an empty top element is False
FinalCheck(stack) ==
    IF Len(stack) = 0 THEN "False"
    ELSE IF Top(stack) = <<>> THEN "False"
    ELSE "True"

\* one turn of the while loop of evaluate, or, with no command left, the
\* checks after it
EvalStep(e, zz) ==
    IF Len(e.cmds) > 0
    THEN LET cmd  == Head(e.cmds)
             cmds == Tail(e.cmds)
             e1   == [e EXCEPT !.cmds = cmds, !.ran = @ + 1]
             After(h, e2) ==
               IF h.err # "ok" THEN [e2 EXCEPT !.state = h.err]
               ELSE IF ~h.ret THEN AfterFailure([e2 EXCEPT !.failed = TRUE])
               ELSE e2
             Body(h) ==
               After(h, [e1 EXCEPT !.cmds = h.cmds, !.stack = h.stack,
                                   !.altstack = h.altstack])
         IN  IF IsOp(cmd)
             THEN IF cmd.op \notin OP_CODE_FUNCTIONS
                  THEN [e1 EXCEPT !.state = "KeyError"]
                  ELSE Body(Dispatch(cmd.op, e.stack, cmds, e.altstack, zz))
             ELSE [e1 EXCEPT !.stack = Append(e.stack, cmd.data)]
    ELSE [e EXCEPT !.state = FinalCheck(e.stack),
                   !.stack = IF Len(e.stack) = 0 THEN e.stack ELSE Pop(e.stack)]

RECURSIVE EvalRun(_, _)
EvalRun(e, zz) == IF e.state # "run" THEN e ELSE EvalRun(EvalStep(e, zz), zz)

\* Script.evaluate(z): True, False, or the exception raised
Script_evaluate(cmds, zz) ==
    LET Body(e) ==
          IF e.state \in {"True", "False"}
          THEN [err |-> "ok", val |-> (e.state = "True")]
          ELSE [err |-> e.state, val |-> FALSE]
    IN  Body(EvalRun(EvalStart(cmds), zz))

-----------------------------------------------------------------------------
(* tx.py: TxFetcher                                                        *)

SIGHASH_ALL == 1

\* Tx.hash() and Tx.id()
Tx_hash(t) ==
    LET Body(ser) ==
          IF ser.err # "ok" THEN ser
          ELSE [err |-> "ok", val |-> Reverse(hash256(ser.val))]
    IN  Body(Tx_serialize(t))

Tx_id(t) ==
    LET Body(h) == IF h.err # "ok" THEN h ELSE [err |-> "ok", val |-> hex(h.val)]
    IN  Body(Tx_hash(t))

\* dict assignment cache[key] = value
DictPut(d, key, value) ==
    [k \in DOMAIN d \cup {key} |-> IF k = key THEN value ELSE d[k]]

\* a fetch that takes every downloaded transaction for the one asked for
IdDiffers_Never(id, tx_id) == FALSE

\* if tx.id() != tx_id
IdDiffers(id, tx_id) == id # tx_id

\* the body of the "if fresh or (tx_id not in cls.cache)" branch of fetch,
\* given the response of the server: the transaction to store, or the error
Downloaded(tx_id, testnet, response) ==
    IF ~response.hex THEN [err |-> "ValueError", val |-> NoneTx]
    ELSE IF Len(response.raw) < 5 THEN [err |-> "IndexError", val |-> NoneTx]
    ELSE
      LET raw == IF response.raw[5] = 0
                 THEN SubSeq(response.raw, 1, 4)
                      \o SubSeq(response.raw, 7, Len(response.raw))
                 ELSE response.raw
          Checked(t, id) ==
            IF id.err # "ok" THEN [err |-> id.err, val |-> NoneTx]
            ELSE IF IdDiffers(id.val, tx_id) THEN [err |-> "ValueError", val |-> NoneTx]
            ELSE [err |-> "ok", val |-> t]
          WithLocktime(t) == Checked(t, Tx_id(t))
          Body(parsed) ==
            IF parsed.err # "ok" THEN [err |-> parsed.err, val |-> NoneTx]
            ELSE WithLocktime(IF response.raw[5] = 0
                              THEN [parsed.val EXCEPT
                                      !.locktime = little_endian_to_int(
                                          SubSeq(raw, Len(raw) - 3, Len(raw)))]
                              ELSE parsed.val)
      IN  Body(Tx_parse(Stream(raw), testnet))

\* TxFetcher.fetch(tx_id, testnet, fresh) on cache c: the transaction
\* returned and the cache afterwards
TxFetcher_fetch(c, tx_id, testnet, fresh, response) ==
    LET Body(d) ==
          IF d.err # "ok" THEN [err |-> d.err, val |-> NoneTx, cache |-> c]
          ELSE [err |-> "ok", val |-> [d.val EXCEPT !.testnet = testnet],
                cache |-> DictPut(c, tx_id, [d.val EXCEPT !.testnet = testnet])]
    IN  IF fresh \/ tx_id \notin DOMAIN c
        THEN Body(Downloaded(tx_id, testnet, response))
        ELSE [err |-> "ok", val |-> [c[tx_id] EXCEPT !.testnet = testnet],
              cache |-> DictPut(c, tx_id, [c[tx_id] EXCEPT !.testnet = testnet])]

-----------------------------------------------------------------------------
(* The world outside: two keys, and the transactions the servers hold      *)

Key1 == 5
Key2 == Key1 + 6

Sec1 == S256Point_sec(PrivateKey_point(Key1), TRUE)

Coinbase == <<TxIn(to_bytes_big(0, TxIdLen), 0, <<DataCmd(<<9>>)>>, 0)>>

\* on the testnet server: output 0 pays to the hash of Key1's compressed
\* public key, output 1 can be spent by anyone
PrevA == Tx(1, Coinbase,
            <<TxOut(50, p2pkh_script(hash160(Sec1))), TxOut(30, <<DataCmd(<<1>>)>>)>>,
            0, FALSE)

\* on the mainnet server: output 0 is OP_1, output 1 pays to the hash of
\* Key1's uncompressed public key
PrevB == Tx(2, Coinbase,
            <<TxOut(20, <<OpCmd(81)>>),
              TxOut(7, p2pkh_script(hash160(S256Point_sec(PrivateKey_point(Key1),
                                                          FALSE))))>>,
            258, FALSE)

\* what each server holds: the id and the serialization of the transaction
Servers ==
    {[testnet |-> TRUE,  id |-> Tx_id(PrevA).val, raw |-> Tx_serialize(PrevA).val],
     [testnet |-> FALSE, id |-> Tx_id(PrevB).val, raw |-> Tx_serialize(PrevB).val]}

\* requests.get(url): the hex of the transaction the server of that net
\* holds under tx_id, or a page that is not hex
Network(tx_id, testnet) ==
    IF \E p \in Servers : p.testnet = testnet /\ p.id = tx_id
    THEN [hex |-> TRUE,
          raw |-> (CHOOSE p \in Servers : p.testnet = testnet /\ p.id = tx_id).raw]
    ELSE [hex |-> FALSE, raw |-> <<>>]

-----------------------------------------------------------------------------
(* tx.py: TxIn lookups, Tx.fee, sig_hash, verify_input, verify, sign_input *)
(* Each operator takes the cache and returns it as the call leaves it.     *)

TxIn_fetch_tx(c, tx_in, testnet) ==
    TxFetcher_fetch(c, hex(tx_in.prev_tx), testnet, FALSE,
                    Network(hex(tx_in.prev_tx), testnet))

\* tx.tx_outs[self.prev_index]: IndexError beyond the list
TxIn_value(c, tx_in, testnet) ==
    LET Body(f) ==
          IF f.err # "ok" THEN [err |-> f.err, val |-> 0, cache |-> f.cache]
          ELSE IF tx_in.prev_index >= Len(f.val.tx_outs)
          THEN [err |-> "IndexError", val |-> 0, cache |-> f.cache]
          ELSE [err |-> "ok", val |-> f.val.tx_outs[tx_in.prev_index + 1].amount,
                cache |-> f.cache]
    IN  Body(TxIn_fetch_tx(c, tx_in, testnet))

TxIn_script_pubkey(c, tx_in, testnet) ==
    LET Body(f) ==
          IF f.err # "ok" THEN [err |-> f.err, val |-> <<>>, cache |-> f.cache]
          ELSE IF tx_in.prev_index >= Len(f.val.tx_outs)
          THEN [err |-> "IndexError", val |-> <<>>, cache |-> f.cache]
          ELSE [err |-> "ok",
                val |-> f.val.tx_outs[tx_in.prev_index + 1].script_pubkey,
                cache |-> f.cache]
    IN  Body(TxIn_fetch_tx(c, tx_in, testnet))

\* the first loop of fee: input_sum += tx_in.value()
RECURSIVE FeeInputs(_, _, _)
FeeInputs(c, tx_ins, input_sum) ==
    IF tx_ins = <<>> THEN [err |-> "ok", val |-> input_sum, cache |-> c]
    ELSE LET Body(v) ==
               IF v.err # "ok" THEN v
               ELSE FeeInputs(v.cache, Tail(tx_ins), input_sum + v.val)
         IN  Body(TxIn_value(c, Head(tx_ins), FALSE))

\* the second loop of fee: output_sum -= tx_outs.amount
RECURSIVE FeeOutputs(_, _)
FeeOutputs(tx_outs, output_sum) ==
    IF tx_outs = <<>> THEN output_sum
    ELSE FeeOutputs(Tail(tx_outs), output_sum - Head(tx_outs).amount)

Tx_fee(c, t) ==
    LET Body(ins) ==
          IF ins.err # "ok" THEN ins
          ELSE [err |-> "ok", val |-> ins.val - FeeOutputs(t.tx_outs, 0),
                cache |-> ins.cache]
    IN  Body(FeeInputs(c, t.tx_ins, 0))

\* a sig_hash that would write the substituted script into the input itself
SigHashStore_InPlace(j) == "self"

\* where sig_hash puts the substituted script of input j: in a TxIn it
\* builds for the purpose ("new"), not in the input of the transaction
SigHashStore(j) == "new"

\* a sig_hash that would leave the script_sig of the other inputs in place
SigHashOtherScript_Kept(tx_in) == tx_in.script_sig

\* the script of an input other than input_index in the hashed buffer:
\* TxIn(prev_tx, prev_index, sequence) has the empty Script()
SigHashOtherScript(tx_in) == <<>>

\* the loop of sig_hash over the inputs, from input j on
RECURSIVE SigHashInputs(_, _, _, _, _, _)
SigHashInputs(c, t, input_index, j, s, after) ==
    IF j > Len(t.tx_ins) THEN [err |-> "ok", val |-> s, cache |-> c, tx_ins |-> after]
    ELSE
      LET tx_in == t.tx_ins[j]
          Written(spk, ser, now) ==
            IF ser.err # "ok"
            THEN [err |-> ser.err, val |-> s, cache |-> spk.cache, tx_ins |-> now]
            ELSE SigHashInputs(spk.cache, t, input_index, j + 1, s \o ser.val, now)
          Built(spk, built) ==
            Written(spk, TxIn_serialize(built),
                    IF SigHashStore(j) = "new" THEN after
                    ELSE [after EXCEPT ![j] = built])
          Body(spk) ==
            IF spk.err # "ok"
            THEN [err |-> spk.err, val |-> s, cache |-> spk.cache, tx_ins |-> after]
            ELSE Built(spk, TxIn(tx_in.prev_tx, tx_in.prev_index, spk.val,
                                 tx_in.sequence))
      IN  Body(IF j - 1 = input_index
               THEN TxIn_script_pubkey(c, tx_in, t.testnet)
               ELSE [err |-> "ok", val |-> SigHashOtherScript(tx_in), cache |-> c])

\* Tx.sig_hash(input_index): z, the buffer hashed, the cache and the
\* transaction as the call leaves them
Tx_sig_hash(c, t, input_index) ==
    LET Hashed(ins, s) ==
          [err |-> "ok", val |-> from_bytes_big(hash256(s)), buf |-> s,
           cache |-> ins.cache, tx |-> [t EXCEPT !.tx_ins = ins.tx_ins]]
        Failed(ins, err) ==
          [err |-> err, val |-> 0, buf |-> <<>>, cache |-> ins.cache,
           tx |-> [t EXCEPT !.tx_ins = ins.tx_ins]]
        Body(ins, outs) ==
          IF ins.err # "ok" THEN Failed(ins, ins.err)
          ELSE IF outs.err # "ok" THEN Failed(ins, outs.err)
          ELSE Hashed(ins, ins.val \o encode_varint(Len(t.tx_outs)) \o outs.val
                           \o int_to_little_endian(t.locktime, 4)
                           \o int_to_little_endian(SIGHASH_ALL, 4))
    IN  Body(SigHashInputs(c, t, input_index, 1,
                           int_to_little_endian(t.version, 4)
                           \o encode_varint(Len(t.tx_ins)),
                           t.tx_ins),
             SerializeAll(t.tx_outs, FALSE))

\* Tx.verify_input(input_index)
Tx_verify_input(c, t, input_index) ==
    IF input_index >= Len(t.tx_ins)
    THEN [err |-> "IndexError", val |-> FALSE, cache |-> c, tx |-> t]
    ELSE
      LET tx_in == t.tx_ins[input_index + 1]
          Evaluated(zh, r) ==
            [err |-> r.err, val |-> r.val, cache |-> zh.cache, tx |-> zh.tx]
          Hashed(spk, zh) ==
            IF zh.err # "ok"
            THEN [err |-> zh.err, val |-> FALSE, cache |-> zh.cache, tx |-> zh.tx]
            ELSE Evaluated(zh, Script_evaluate(Script_add(tx_in.script_sig, spk.val),
                                               zh.val))
          Body(spk) ==
            IF spk.err # "ok"
            THEN [err |-> spk.err, val |-> FALSE, cache |-> spk.cache, tx |-> t]
            ELSE Hashed(spk, Tx_sig_hash(spk.cache, t, input_index))
      IN  Body(TxIn_script_pubkey(c, tx_in, t.testnet))

\* the loop of verify over the inputs, from input i on
RECURSIVE VerifyInputs(_, _, _)
VerifyInputs(c, t, i) ==
    IF i >= Len(t.tx_ins) THEN [err |-> "ok", val |-> TRUE, cache |-> c, tx |-> t]
    ELSE LET Body(v) ==
               IF v.err # "ok" \/ ~v.val THEN v
               ELSE VerifyInputs(v.cache, v.tx, i + 1)
         IN  Body(Tx_verify_input(c, t, i))

\* Tx.verify()
Tx_verify(c, t) ==
    LET Body(f) ==
          IF f.err # "ok"
          THEN [err |-> f.err, val |-> FALSE, cache |-> f.cache, tx |-> t]
          ELSE IF f.val < 0
          THEN [err |-> "ok", val |-> FALSE, cache |-> f.cache, tx |-> t]
          ELSE VerifyInputs(f.cache, t, 0)
    IN  Body(Tx_fee(c, t))

\* Tx.sign_input(input_index, private_key, compressed), k being what
\* deterministic_k returns for the z of this input
Tx_sign_input(c, t, input_index, e, compressed, k) ==
    LET Signed(zh, der) ==
          IF der.err # "ok"
          THEN [err |-> der.err, val |-> FALSE, cache |-> zh.cache, tx |-> zh.tx]
          ELSE Tx_verify_input(
                 zh.cache,
                 [zh.tx EXCEPT
                    !.tx_ins[input_index + 1].script_sig =
                        <<DataCmd(der.val \o to_bytes_big(SIGHASH_ALL, 1)),
                          DataCmd(S256Point_sec(PrivateKey_point(e), compressed))>>],
                 input_index)
        Body(zh) ==
          IF zh.err # "ok"
          THEN [err |-> zh.err, val |-> FALSE, cache |-> zh.cache, tx |-> zh.tx]
          ELSE Signed(zh, Signature_der(PrivateKey_sign(e, zh.val, k)))
    IN  Body(Tx_sig_hash(c, t, input_index))

-----------------------------------------------------------------------------
(* Values of the variables a behaviour does not use                        *)

NoTx == NoneTx
NoSig == Signature(PyNone, PyNone)
NoRet == [err |-> "none", val |-> FALSE]
NoEval == [cmds |-> <<>>, stack |-> <<>>, altstack |-> <<>>, state |-> "idle",
           failed |-> FALSE, ran |-> 0]
EmptyDict == [i \in {} |-> 0]

-----------------------------------------------------------------------------
(* SpecSig: a PrivateKey signs message hashes and its public key verifies  *)

MaxHmac == 1        \* distinct HMAC inputs answered in one behaviour

\* message hashes: below N, equal to N, above N
MessageHashes == {0, 1, 17, N - 1, N, N + 1}

InitSig ==
    /\ secret \in 1 .. (N - 1)
    /\ z = 0 /\ sig = NoSig /\ hmac = EmptyDict
    /\ call = "PrivateKey" /\ args = <<>> /\ ret = NoRet
    /\ tx = NoTx /\ cache = EmptyDict /\ script = <<>> /\ stream = <<>> /\ ev = NoEval

\* sig = PrivateKey(secret).sign(zz)
Sign(zz) ==
    /\ HmacInput(secret, zz) \in DOMAIN hmac \/ Cardinality(DOMAIN hmac) < MaxHmac
    /\ \E k \in deterministic_k(hmac, secret, zz) :
          /\ sig' = PrivateKey_sign(secret, zz, k)
          /\ hmac' = Remember(hmac, secret, zz, k)
    /\ z' = zz
    /\ call' = "sign"
    /\ args' = <<zz>>
    /\ ret' = [err |-> "ok", val |-> TRUE]
    /\ UNCHANGED <<tx, cache, script, stream, secret, ev>>

\* PrivateKey(secret).point.verify(z, sig) for the signature just made
Verify ==
    /\ call \in {"sign", "verify"}
    /\ ret' = S256Point_verify(PrivateKey_point(secret), z, sig)
    /\ call' = "verify"
    /\ args' = <<z>>
    /\ UNCHANGED <<tx, cache, script, stream, secret, z, sig, hmac, ev>>

NextSig == (\E zz \in MessageHashes : Sign(zz)) \/ Verify

SpecSig == InitSig /\ [][NextSig]_vars

\* C1: for every secret e in [1,N) and every message hash z, the public key
\* e*G accepts the signature sign(z) returns: verify(z, sign(z)) is True.
C1_SignThenVerify ==
    call = "verify" => (ret.err = "ok" /\ ret.val = TRUE)

\* the signature verifies whenever its s is not zero
C1_VerifiesUnlessZeroS ==
    (call = "verify" /\ sig.s # 0) => (ret.err = "ok" /\ ret.val = TRUE)

\* C11: every signature sign(z) returns has 1 <= r < N and 1 <= s <= N/2;
\* a candidate k that gives r = 0 or s = 0 is not used for the signature
\* returned.
C11_SignatureInRange ==
    call = "sign" =>
        (1 <= sig.r /\ sig.r < N /\ 1 <= sig.s /\ 2 * sig.s <= N)

\* what sign does guarantee: r is the x coordinate of k*G as it is, below P,
\* and s is reduced modulo N and never above N/2
C11_LowS ==
    call = "sign" =>
        /\ \E k \in 1 .. (N - 1) : sig.r = S256Point_rmul(G, k).x.num
        /\ 0 <= sig.r /\ sig.r < P
        /\ 0 <= sig.s /\ 2 * sig.s <= N

\* a signature whose r is not below N, with s in range
C11_UnreducedR ==
    ~(call = "sign" /\ sig.r >= N /\ sig.s >= 1)

-----------------------------------------------------------------------------
(* SpecTx: a transaction spending outputs of PrevA and PrevB is hashed,    *)
(* signed and verified; previous transactions come through TxFetcher       *)

MaxIns == 2         \* inputs of the transaction

IdA == Tx_hash(PrevA).val
IdB == Tx_hash(PrevB).val
IdUnknown == to_bytes_big(3, TxIdLen)

\* inputs: unsigned ones, one with a script_sig already in place, one whose
\* previous transaction no server holds
InputRefs ==
    <<TxIn(IdA, 0, <<>>, 16777215), TxIn(IdA, 1, <<DataCmd(<<7>>)>>, 0),
      TxIn(IdB, 0, <<>>, 65534), TxIn(IdB, 1, <<>>, 1),
      TxIn(IdUnknown, 0, <<>>, 0)>>

\* the input lists: up to MaxIns of the inputs above, each at most once, in
\* the order above
InputLists ==
    UNION {{[i \in 1 .. n |-> InputRefs[f[i]]] :
              f \in {g \in [1 .. n -> 1 .. Len(InputRefs)] :
                        \A a, b \in 1 .. n : a < b => g[a] < g[b]}} :
           n \in 1 .. MaxIns}

OutputLists ==
    {<<TxOut(10, <<OpCmd(81)>>)>>,
     <<TxOut(60, p2pkh_script(hash160(Sec1))), TxOut(300, <<DataCmd(<<1, 2>>)>>)>>}

InitTx ==
    /\ tx \in {Tx(1, ins, outs, 513, net) :
                 ins \in InputLists, outs \in OutputLists, net \in BOOLEAN}
    /\ cache = EmptyDict /\ hmac = EmptyDict
    /\ call = "Tx" /\ args = <<>> /\ ret = NoRet
    /\ secret = 0 /\ z = 0 /\ sig = NoSig
    /\ script = <<>> /\ stream = <<>> /\ ev = NoEval

Inputs == 0 .. (Len(tx.tx_ins) - 1)

\* tx.fee()
Fee ==
    \E r \in {Tx_fee(cache, tx)} :
        /\ call' = "fee" /\ args' = <<>>
        /\ ret' = [err |-> r.err, val |-> r.val]
        /\ cache' = r.cache
        /\ UNCHANGED <<tx, script, stream, secret, z, sig, hmac, ev>>

\* tx.sig_hash(i); stream keeps the buffer that was hashed
SigHash(i) ==
    \E r \in {Tx_sig_hash(cache, tx, i)} :
        /\ call' = "sig_hash" /\ args' = <<i>>
        /\ ret' = [err |-> r.err, val |-> r.val]
        /\ stream' = r.buf
        /\ cache' = r.cache
        /\ tx' = r.tx
        /\ UNCHANGED <<script, secret, z, sig, hmac, ev>>

\* tx.verify_input(i)
VerifyInput(i) ==
    \E r \in {Tx_verify_input(cache, tx, i)} :
        /\ call' = "verify_input" /\ args' = <<i>>
        /\ ret' = [err |-> r.err, val |-> r.val]
        /\ cache' = r.cache
        /\ tx' = r.tx
        /\ UNCHANGED <<script, stream, secret, z, sig, hmac, ev>>

\* tx.verify()
VerifyTx ==
    \E r \in {Tx_verify(cache, tx)} :
        /\ call' = "verify" /\ args' = <<>>
        /\ ret' = [err |-> r.err, val |-> r.val]
        /\ cache' = r.cache
        /\ tx' = r.tx
        /\ UNCHANGED <<script, stream, secret, z, sig, hmac, ev>>

NextTx ==
    \/ Fee
    \/ \E i \in Inputs : SigHash(i)
    \/ \E i \in Inputs : VerifyInput(i)
    \/ VerifyTx

SpecTx == InitTx /\ [][NextTx]_vars

-----------------------------------------------------------------------------
(* Properties of fee, verify and sig_hash under SpecTx                     *)

\* the previous output an input points to, by the id of its transaction
PrevOutOf(tx_in) ==
    IF tx_in.prev_tx = IdA THEN PrevA.tx_outs[tx_in.prev_index + 1]
    ELSE PrevB.tx_outs[tx_in.prev_index + 1]

RECURSIVE SumInputValues(_)
SumInputValues(tx_ins) ==
    IF tx_ins = <<>> THEN 0
    ELSE PrevOutOf(Head(tx_ins)).amount + SumInputValues(Tail(tx_ins))

RECURSIVE SumOutputAmounts(_)
SumOutputAmounts(tx_outs) ==
    IF tx_outs = <<>> THEN 0
    ELSE Head(tx_outs).amount + SumOutputAmounts(Tail(tx_outs))

\* the combined script of input j is valid with z = sig_hash(j)
InputValid(j) ==
    \E zh \in {Tx_sig_hash(cache, tx, j - 1)} :
        \E r \in {Script_evaluate(Script_add(tx.tx_ins[j].script_sig,
                                             PrevOutOf(tx.tx_ins[j]).script_pubkey),
                                  zh.val)} :
            zh.err = "ok" /\ r.err = "ok" /\ r.val

\* C3: verify() returns True if and only if the input values minus the
\* output amounts are >= 0 and the combined script of every input is valid
\* with z = sig_hash(i); a transaction whose outputs exceed its inputs is
\* never verified.
C3_VerifyIffFeeAndScripts ==
    (call = "verify" /\ ret.err = "ok") =>
        (ret.val <=> (/\ SumInputValues(tx.tx_ins) - SumOutputAmounts(tx.tx_outs) >= 0
                      /\ \A j \in 1 .. Len(tx.tx_ins) : InputValid(j)))

\* C4: fee() returns the sum of the values of the inputs' previous outputs
\* minus the sum of the amounts of the outputs.
C4_FeeIsInputsMinusOutputs ==
    (call = "fee" /\ ret.err = "ok") =>
        ret.val = SumInputValues(tx.tx_ins) - SumOutputAmounts(tx.tx_outs)

\* C5: a call of sig_hash leaves version, locktime, the outputs and every
\* input (prev_tx, prev_index, script_sig, sequence) of the transaction as
\* they were, and a second call with the same input index on the same
\* transaction returns the same z as the first.
C5_SigHashLeavesTx ==
    [][call' = "sig_hash" =>
          /\ tx'.version = tx.version /\ tx'.locktime = tx.locktime
          /\ tx'.tx_outs = tx.tx_outs /\ tx'.tx_ins = tx.tx_ins
          /\ (call = "sig_hash" /\ args' = args /\ ret.err = "ok" => ret' = ret)]_vars

\* a sig_hash has returned z for a transaction of two inputs one of which
\* carries a script_sig
C5_Witness ==
    /\ call = "sig_hash" /\ ret.err = "ok"
    /\ Len(tx.tx_ins) = 2
    /\ \E j \in 1 .. 2 : tx.tx_ins[j].script_sig # <<>>
    /\ PrevOutOf(tx.tx_ins[args[1] + 1]).script_pubkey # <<>>

\* the inputs the buffer of sig_hash(i) is expected to hold
RECURSIVE HashedInputs(_, _, _)
HashedInputs(tx_ins, i, j) ==
    IF j > Len(tx_ins) THEN <<>>
    ELSE <<TxIn(tx_ins[j].prev_tx, tx_ins[j].prev_index,
                IF j - 1 = i THEN PrevOutOf(tx_ins[j]).script_pubkey ELSE <<>>,
                tx_ins[j].sequence)>>
         \o HashedInputs(tx_ins, i, j + 1)

\* C6: the buffer hashed by sig_hash(i) is the serialization of the
\* transaction in which input i has the script_pubkey of its previous
\* output as script and every other input the empty script, with prev_tx,
\* prev_index, sequence, the outputs, version and locktime unchanged,
\* followed by the four bytes 01 00 00 00; z is the big-endian integer of
\* hash256 of the buffer.
C6_SigHashBuffer ==
    (call = "sig_hash" /\ ret.err = "ok") =>
        \E body \in {SubSeq(stream, 1, Len(stream) - 4)} :
          \E parsed \in {Tx_parse(Stream(body), FALSE)} :
            /\ Len(stream) >= 4
            /\ SubSeq(stream, Len(stream) - 3, Len(stream)) = <<1, 0, 0, 0>>
            /\ parsed.err = "ok" /\ parsed.s.pos = Len(body)
            /\ parsed.val = Tx(tx.version, HashedInputs(tx.tx_ins, args[1], 1),
                               tx.tx_outs, tx.locktime, FALSE)
            /\ ret.val = from_bytes_big(hash256(stream))

\* sig_hash(i) has hashed a transaction of two inputs whose other input
\* carries a script_sig
C6_Witness ==
    /\ call = "sig_hash" /\ ret.err = "ok"
    /\ Len(tx.tx_ins) = 2
    /\ tx.tx_ins[2 - args[1]].script_sig # <<>>
    /\ PrevOutOf(tx.tx_ins[args[1] + 1]).script_pubkey # <<>>
    /\ tx.locktime > 255 /\ Len(tx.tx_outs) = 2

\* C20: fee, sig_hash, verify_input and verify never change a transaction
\* that is already in the cache of TxFetcher: every cached transaction keeps
\* all its fields over every call, and the cache only gains entries.
C20_CacheEntriesUnchanged ==
    [][\A k \in DOMAIN cache : k \in DOMAIN cache' /\ cache'[k] = cache[k]]_vars

\* no call removes a cache entry or changes a field of a cached transaction
\* other than testnet, which every fetch sets to its own argument
C20_OnlyTestnetChanges ==
    [][\A k \in DOMAIN cache :
          /\ k \in DOMAIN cache'
          /\ [cache'[k] EXCEPT !.testnet = cache[k].testnet] = cache[k]]_vars

-----------------------------------------------------------------------------
(* SpecSign: the inputs of a transaction are signed with sign_input, then  *)
(* the transaction is verified                                             *)

\* transactions whose inputs spend the two outputs locked to Key1, and one
\* spending an output locked to nobody
SignTxs ==
    {Tx(1, <<TxIn(IdA, 0, <<>>, 16777215)>>, <<TxOut(10, <<OpCmd(81)>>)>>, 0, TRUE),
     Tx(1, <<TxIn(IdB, 1, <<>>, 16777215)>>, <<TxOut(5, <<OpCmd(81)>>)>>, 0, FALSE),
     Tx(1, <<TxIn(IdB, 1, <<>>, 0), TxIn(IdB, 0, <<>>, 0)>>,
        <<TxOut(5, p2pkh_script(hash160(Sec1)))>>, 0, FALSE)}

InitSign ==
    /\ tx \in SignTxs
    /\ cache = EmptyDict /\ hmac = EmptyDict
    /\ call = "Tx" /\ args = <<>> /\ ret = NoRet
    /\ secret = 0 /\ z = 0 /\ sig = NoSig
    /\ script = <<>> /\ stream = <<>> /\ ev = NoEval

\* tx.sign_input(i, PrivateKey(e), compressed)
SignInput(i, e, compressed) ==
    \E zh \in {Tx_sig_hash(cache, tx, i)} :
        /\ HmacInput(e, zh.val) \in DOMAIN hmac \/ Cardinality(DOMAIN hmac) < MaxHmac
        /\ \E k \in deterministic_k(hmac, e, zh.val) :
              \E r \in {Tx_sign_input(cache, tx, i, e, compressed, k)} :
                  /\ ret' = [err |-> r.err, val |-> r.val]
                  /\ cache' = r.cache
                  /\ tx' = r.tx
                  /\ hmac' = IF zh.err = "ok" THEN Remember(hmac, e, zh.val, k) ELSE hmac
        /\ call' = "sign_input" /\ args' = <<i, e, compressed>>
        /\ UNCHANGED <<script, stream, secret, z, sig, ev>>

NextSign ==
    \/ \E i \in Inputs, e \in {Key1, Key2}, compressed \in BOOLEAN :
          SignInput(i, e, compressed)
    \/ VerifyTx

SpecSign == InitSign /\ [][NextSign]_vars

-----------------------------------------------------------------------------
(* Properties of sign_input under SpecSign                                 *)

\* the previous output of input j is locked by the p2pkh script of the
\* hash160 of the public key of e
LockedTo(j, e, compressed) ==
    PrevOutOf(tx.tx_ins[j]).script_pubkey
        = p2pkh_script(S256Point_hash160(PrivateKey_point(e), compressed))

\* C2: sign_input(i, private_key) returns True for an input that spends an
\* output locked by the p2pkh script of the signing key's hash160, and
\* verify() returns True once every input is signed this way and the inputs
\* cover the outputs.
C2_SignInputReturnsTrue ==
    /\ (call = "sign_input" /\ LockedTo(args[1] + 1, args[2], args[3]))
          => (ret.err = "ok" /\ ret.val = TRUE)
    /\ (/\ call = "verify"
        /\ \A j \in 1 .. Len(tx.tx_ins) :
              \E compressed \in BOOLEAN :
                  /\ LockedTo(j, Key1, compressed)
                  /\ Len(tx.tx_ins[j].script_sig) = 2
        /\ SumInputValues(tx.tx_ins) >= SumOutputAmounts(tx.tx_outs))
          => (ret.err = "ok" /\ ret.val = TRUE)

-----------------------------------------------------------------------------
(* SpecSer: scripts and transactions are serialized and parsed             *)

MaxCmds == 2        \* commands of a script to serialize
MaxStream == 4      \* bytes of a stream given to Script.parse

\* lengths of data elements: around the limits 75, 255 and 520
PushLengths == {1, 2, 74, 75, 76, 255, 256, 520, 521}

Bytes(n) == [i \in 1 .. n |-> (i * 7) % 256]

SerCmds == {OpCmd(0), OpCmd(118), OpCmd(172)} \cup {DataCmd(Bytes(n)) : n \in PushLengths}

SerScripts == UNION {[1 .. n -> SerCmds] : n \in 0 .. MaxCmds}

\* streams for Script.parse: a declared length followed by push headers,
\* opcodes and data, complete or cut short
StreamBytes == {0, 1, 2, 3, 76, 118}

SerStreams == UNION {[1 .. n -> StreamBytes] : n \in 0 .. MaxStream}

\* transactions of one or two inputs and one output around one script
SerTxs ==
    {Tx(2, <<TxIn(IdA, 1, <<c>>, 65534)>>, <<TxOut(5, <<OpCmd(118), c>>)>>, 258, t)
        : c \in SerCmds, t \in BOOLEAN}
    \cup
    {Tx(1, <<TxIn(IdB, 0, <<>>, 0), TxIn(IdA, 258, <<c>>, 1)>>,
        <<TxOut(70000, <<c, c>>)>>, 0, FALSE) : c \in SerCmds}

InitSer ==
    /\ \/ script \in SerScripts /\ stream = <<>> /\ tx = NoTx /\ call = "Script"
       \/ script = <<>> /\ stream \in SerStreams /\ tx = NoTx /\ call = "BytesIO"
       \/ script = <<>> /\ stream = <<>> /\ tx \in SerTxs /\ call = "Tx"
    /\ args = <<>> /\ ret = NoRet
    /\ cache = EmptyDict /\ hmac = EmptyDict
    /\ secret = 0 /\ z = 0 /\ sig = NoSig /\ ev = NoEval

\* stream = Script(script).serialize()
ScriptSerialize ==
    /\ call \in {"Script", "Script.parse"} /\ ret.err \in {"none", "ok"}
    /\ \E r \in {Script_serialize(script)} :
          /\ ret' = r
          /\ stream' = IF r.err = "ok" THEN r.val ELSE stream
    /\ call' = "Script.serialize" /\ args' = <<script>>
    /\ UNCHANGED <<tx, cache, script, secret, z, sig, hmac, ev>>

\* script = Script.parse(BytesIO(stream))
ScriptParse ==
    /\ call \in {"BytesIO", "Script.serialize"} /\ ret.err \in {"none", "ok"}
    /\ \E r \in {Script_parse(Stream(stream))} :
          /\ ret' = [err |-> r.err, val |-> r.cmds]
          /\ script' = IF r.err = "ok" THEN r.cmds ELSE script
    /\ call' = "Script.parse" /\ args' = <<stream>>
    /\ UNCHANGED <<tx, cache, stream, secret, z, sig, hmac, ev>>

\* stream = tx.serialize()
TxSerialize ==
    /\ call = "Tx"
    /\ \E r \in {Tx_serialize(tx)} :
          /\ ret' = r
          /\ stream' = IF r.err = "ok" THEN r.val ELSE stream
    /\ call' = "Tx.serialize" /\ args' = <<>>
    /\ UNCHANGED <<tx, cache, script, secret, z, sig, hmac, ev>>

\* Tx.parse(BytesIO(stream), testnet) of the stream tx.serialize() returned
TxParse(testnet) ==
    /\ call = "Tx.serialize" /\ ret.err = "ok"
    /\ \E r \in {Tx_parse(Stream(stream), testnet)} :
          ret' = [err |-> r.err, val |-> r.val]
    /\ call' = "Tx.parse" /\ args' = <<testnet>>
    /\ UNCHANGED <<tx, cache, script, stream, secret, z, sig, hmac, ev>>

NextSer ==
    \/ ScriptSerialize
    \/ ScriptParse
    \/ TxSerialize
    \/ \E testnet \in BOOLEAN : TxParse(testnet)

SpecSer == InitSer /\ [][NextSer]_vars

-----------------------------------------------------------------------------
(* Properties of serialization and parsing under SpecSer                   *)

\* a script made of opcodes (not the push headers 1..77) and of data
\* elements of 1 to 520 bytes
ValidScript(cmds) ==
    \A i \in 1 .. Len(cmds) :
        IF IsOp(cmds[i]) THEN cmds[i].op \notin 1 .. 77
        ELSE Len(cmds[i].data) \in 1 .. 520

ValidTx(t) ==
    /\ \A i \in 1 .. Len(t.tx_ins) : ValidScript(t.tx_ins[i].script_sig)
    /\ \A i \in 1 .. Len(t.tx_outs) : ValidScript(t.tx_outs[i].script_pubkey)

SameTx(a, b) ==
    /\ a.version = b.version /\ a.locktime = b.locktime
    /\ a.tx_ins = b.tx_ins /\ a.tx_outs = b.tx_outs

\* C7: a valid Tx serializes, with prev_tx byte-reversed on the wire, and
\* Tx.parse of the serialization yields the same version, inputs, outputs
\* and locktime.
C7_TxRoundTrip ==
    /\ (call = "Tx.serialize" /\ ValidTx(tx)) =>
          /\ ret.err = "ok"
          /\ SubSeq(ret.val, 6, 5 + TxIdLen) = Reverse(tx.tx_ins[1].prev_tx)
    /\ (call = "Tx.parse" /\ ValidTx(tx)) =>
          (ret.err = "ok" /\ SameTx(ret.val, tx))

\* whenever serialize has returned, the round trip gives the transaction back
C7_RoundTripOnceSerialized ==
    (call = "Tx.parse" /\ ValidTx(tx)) => (ret.err = "ok" /\ SameTx(ret.val, tx))

\* the encoding of one command by its length
PushEncoding(cmd) ==
    IF IsOp(cmd) THEN <<cmd.op>>
    ELSE IF Len(cmd.data) <= 75 THEN <<Len(cmd.data)>> \o cmd.data
    ELSE IF Len(cmd.data) <= 255 THEN <<76, Len(cmd.data)>> \o cmd.data
    ELSE <<77, Len(cmd.data) % 256, Len(cmd.data) \div 256>> \o cmd.data

RECURSIVE RawEncoding(_)
RawEncoding(cmds) ==
    IF cmds = <<>> THEN <<>> ELSE PushEncoding(Head(cmds)) \o RawEncoding(Tail(cmds))

\* C8: serialize encodes a data element of 1..75 bytes as its length byte
\* and the data, of 76..255 bytes as 76 and a 1-byte length, of 256..520
\* bytes as 77 and a 2-byte little-endian length, rejects a longer element
\* with an error, and prefixes the whole with the varint of its length.
C8_SerializeByLength ==
    (/\ call = "Script.serialize"
     /\ \A i \in 1 .. Len(args[1]) : IsOp(args[1][i]) \/ Len(args[1][i].data) >= 1)
    => IF \E i \in 1 .. Len(args[1]) : Len(args[1][i].data) > 520
       THEN ret.err # "ok"
       ELSE /\ ret.err = "ok"
            /\ ret.val = encode_varint(Len(RawEncoding(args[1]))) \o RawEncoding(args[1])

\* the same for scripts whose data elements are shorter than 75 bytes,
\* between 256 and 520 bytes, or longer
C8_SerializeOutsideGap ==
    (/\ call = "Script.serialize"
     /\ \A i \in 1 .. Len(args[1]) :
           IsOp(args[1][i]) \/ Len(args[1][i].data) \in (1 .. 74) \cup (256 .. 521))
    => IF \E i \in 1 .. Len(args[1]) : Len(args[1][i].data) > 520
       THEN ret.err # "ok"
       ELSE /\ ret.err = "ok"
            /\ ret.val = encode_varint(Len(RawEncoding(args[1]))) \o RawEncoding(args[1])

\* C9: Script.parse fails, and returns no Script, whenever the bytes its
\* commands consumed differ from the length the leading varint declares.
C9_ParseRejectsMismatch ==
    call = "Script.parse" =>
        \E len \in {read_varint(Stream(args[1]))} :
          \E r \in {Script_parse_loop(len.s, len.val, 0, <<>>)} :
            (len.err = "ok" /\ r.err = "ok" /\ r.count # len.val) => ret.err # "ok"

-----------------------------------------------------------------------------
(* SpecEval: Script.evaluate, one turn of its loop at a time               *)

MaxScript == 3      \* commands of a script to evaluate

EvalCmds ==
    {DataCmd(<<>>), DataCmd(<<1>>), OpCmd(81), OpCmd(105), OpCmd(118), OpCmd(135),
     OpCmd(99), OpCmd(104), OpCmd(107), OpCmd(108)}

\* short scripts of every shape, and three longer ones: a pay-to-pubkey-hash
\* spend, a spend with the wrong key, a branch
EvalScripts ==
    UNION {[1 .. n -> EvalCmds] : n \in 0 .. MaxScript}
    \cup {<<DataCmd(<<48, 6, 2, 1, 7, 2, 1, 7, 1>>), DataCmd(Sec1)>>
            \o p2pkh_script(hash160(Sec1)),
          <<DataCmd(<<48, 6, 2, 1, 7, 2, 1, 7, 1>>), DataCmd(<<2, 9>>)>>
            \o p2pkh_script(hash160(Sec1)),
          <<OpCmd(0), OpCmd(99), OpCmd(200), OpCmd(103), OpCmd(81), OpCmd(104)>>}

InitEval ==
    /\ script \in EvalScripts
    /\ z \in {0, 17}
    /\ ev = NoEval
    /\ call = "Script" /\ args = <<>> /\ ret = NoRet
    /\ tx = NoTx /\ cache = EmptyDict /\ hmac = EmptyDict
    /\ stream = <<>> /\ secret = 0 /\ sig = NoSig

\* the call script.evaluate(z): the copies made before the loop
Evaluate ==
    /\ ev.state = "idle"
    /\ ev' = EvalStart(script)
    /\ call' = "evaluate" /\ args' = <<z>>
    /\ UNCHANGED <<tx, cache, script, stream, secret, z, sig, hmac, ret>>

\* one turn of the loop, or the checks after it and the return
Step ==
    /\ ev.state = "run"
    /\ \E e \in {EvalStep(ev, z)} :
          /\ ev' = e
          /\ ret' = IF e.state = "run" THEN ret
                    ELSE IF e.state \in {"True", "False"}
                    THEN [err |-> "ok", val |-> (e.state = "True")]
                    ELSE [err |-> e.state, val |-> FALSE]
    /\ UNCHANGED <<tx, cache, script, stream, secret, z, sig, hmac, call, args>>

NextEval == Evaluate \/ Step

SpecEval == InitEval /\ [][NextEval]_vars

\* C10: evaluate takes the commands in list order, pushing a data element
\* and dispatching an opcode to its handler; it returns True exactly when
\* no handler has returned failure and, with no command left, the stack is
\* not empty and its top is not the empty string; the first handler that
\* fails ends the evaluation with False and no later command runs.
C10_EvaluateVerdict ==
    [][(ev.state = "run" /\ ev' # ev) =>
          /\ ~ev.failed
          /\ IF ev.cmds # <<>>
             THEN /\ ev'.ran = ev.ran + 1
                  /\ ev'.state # "True"
                  /\ ~IsOp(Head(ev.cmds)) =>
                        /\ ev'.stack = Append(ev.stack, Head(ev.cmds).data)
                        /\ ev'.cmds = Tail(ev.cmds)
                        /\ ev'.state = "run"
                  /\ (IsOp(Head(ev.cmds)) /\ Head(ev.cmds).op \in OP_CODE_FUNCTIONS) =>
                        \E h \in {Dispatch(Head(ev.cmds).op, ev.stack, Tail(ev.cmds),
                                           ev.altstack, z)} :
                            /\ ev'.stack = h.stack
                            /\ (h.err = "ok" /\ ~h.ret) => ev'.state = "False"
                            /\ (h.err = "ok" /\ h.ret) => ev'.state = "run"
             ELSE /\ ev'.ran = ev.ran
                  /\ ev'.state = IF Len(ev.stack) > 0 /\ Top(ev.stack) # <<>>
                                 THEN "True" ELSE "False"
                  /\ ret'.err = "ok" /\ ret'.val = (ev'.state = "True")]_vars

\* a handler has failed and evaluate has returned False with commands left
C10_Witness ==
    /\ ev.state = "False" /\ ev.failed /\ ev.cmds # <<>> /\ ev.ran >= 2
    /\ ret.err = "ok" /\ ~ret.val

\* evaluate returns True with no command left and a non-empty top element
C10_ReturnsTrue ==
    ev.state = "True" /\ ev.cmds = <<>> /\ ev.ran = MaxScript /\ ret.val

-----------------------------------------------------------------------------
(* SpecEnc: a Signature is DER-encoded and parsed, the public point of a   *)
(* PrivateKey is SEC-encoded and parsed                                    *)

\* values of r and s: one byte with the top bit clear and set, two bytes
\* with the top bit clear and set
DerValues == {1, 30, 127, 128, 255, 256, 65535}

InitEnc ==
    /\ sig \in {Signature(r, s) : r, s \in DerValues}
    /\ secret \in 1 .. (N - 1)
    /\ stream = <<>>
    /\ call = "Signature" /\ args = <<>> /\ ret = NoRet
    /\ z = 0 /\ hmac = EmptyDict
    /\ tx = NoTx /\ cache = EmptyDict /\ script = <<>> /\ ev = NoEval

\* stream = sig.der()
Der ==
    \E r \in {Signature_der(sig)} :
        /\ call' = "der" /\ args' = <<>>
        /\ ret' = r
        /\ stream' = r.val
        /\ UNCHANGED <<tx, cache, script, secret, z, sig, hmac, ev>>

\* the length byte of the encoding is changed
Corrupt ==
    /\ call = "der" /\ ret.err = "ok"
    /\ stream' = [stream EXCEPT ![2] = (@ + 1) % 256]
    /\ call' = "corrupt" /\ args' = <<>>
    /\ ret' = NoRet
    /\ UNCHANGED <<tx, cache, script, secret, z, sig, hmac, ev>>

\* Signature.parse(stream), of an encoding or of a corrupted one
SigParse ==
    /\ call \in {"der", "corrupt"} /\ stream # <<>>
    /\ call' = "Signature.parse" /\ args' = <<call>>
    /\ ret' = [err |-> "ok", val |-> Signature_parse(stream)]
    /\ UNCHANGED <<tx, cache, script, stream, secret, z, sig, hmac, ev>>

\* stream = PrivateKey(secret).point.sec(compressed)
Sec(compressed) ==
    /\ call' = "sec" /\ args' = <<compressed>>
    /\ stream' = S256Point_sec(PrivateKey_point(secret), compressed)
    /\ ret' = [err |-> "ok", val |-> S256Point_sec(PrivateKey_point(secret), compressed)]
    /\ UNCHANGED <<tx, cache, script, secret, z, sig, hmac, ev>>

\* S256Point.parse(stream)
PointParse ==
    /\ call = "sec"
    /\ \E p \in {S256Point_parse(stream)} :
          ret' = [err |-> p.err, val |-> p]
    /\ call' = "S256Point.parse" /\ args' = args
    /\ UNCHANGED <<tx, cache, script, stream, secret, z, sig, hmac, ev>>

NextEnc ==
    \/ Der
    \/ Corrupt
    \/ SigParse
    \/ \E compressed \in BOOLEAN : Sec(compressed)
    \/ PointParse

SpecEnc == InitEnc /\ [][NextEnc]_vars

-----------------------------------------------------------------------------
(* Properties of the DER and SEC encodings under SpecEnc                   *)

\* a DER integer: the 32-byte big-endian bytes of v without leading zero
\* bytes, with 0x00 in front exactly when the top bit of the first is set
DerIntegerOf(v) ==
    LET Body(b) == IF b[1] >= 128 THEN <<0>> \o b ELSE b
    IN  Body(lstrip0(to_bytes_big(v, 32)))

\* C12: der() returns 0x30, the total length, then 0x02, len(r), r, then
\* 0x02, len(s), s, each integer being the value's own big-endian bytes
\* without leading zeros and with 0x00 in front exactly when the top bit is
\* set; the second integer encodes sig.s.
C12_DerEncodesRAndS ==
    call = "der" =>
        \E rb \in {DerIntegerOf(sig.r)} : \E sb \in {DerIntegerOf(sig.s)} :
            /\ ret.err = "ok"
            /\ ret.val = <<48, Len(rb) + Len(sb) + 4>>
                           \o <<2, Len(rb)>> \o rb \o <<2, Len(sb)>> \o sb

\* the first integer of der() is the encoding of r
C12_FirstIntegerIsR ==
    call = "der" =>
        \E rb \in {DerIntegerOf(sig.r)} :
            /\ ret.err = "ok"
            /\ ret.val[1] = 48 /\ ret.val[2] = Len(ret.val) - 2
            /\ SubSeq(ret.val, 3, 4 + Len(rb)) = <<2, Len(rb)>> \o rb

\* C13: Signature.parse of the DER encoding of a signature gives back a
\* signature with the same r and s, and an encoding whose length byte is
\* wrong is rejected with an error.
C13_DerRoundTrip ==
    (call = "Signature.parse") =>
        IF args[1] = "der"
        THEN ret.err = "ok" /\ ret.val = sig
        ELSE ret.err # "ok"

\* what Signature.parse returns: a signature without r and s
C13_ParseGivesNone ==
    (call = "Signature.parse") =>
        (ret.err = "ok" /\ ret.val.r = PyNone /\ ret.val.s = PyNone)

\* C14: S256Point.parse of the SEC encoding of a finite point, compressed
\* or not, is that point; in the compressed form the y returned is even
\* for the prefix byte 0x02 and odd for 0x03.
C14_SecRoundTrip ==
    (call = "S256Point.parse") =>
        /\ ret.err = "ok"
        /\ Point_eq(ret.val, PrivateKey_point(secret))
        /\ args[1] => (ret.val.y.num % 2 = (IF stream[1] = 2 THEN 0 ELSE 1))

\* the uncompressed form does parse back to the point
C14_UncompressedRoundTrip ==
    (call = "S256Point.parse" /\ ~args[1]) =>
        (ret.err = "ok" /\ Point_eq(ret.val, PrivateKey_point(secret)))

\* the compressed form never parses: sqrt raises
C14_CompressedRaises ==
    (call = "S256Point.parse" /\ args[1]) => ret.err = "TypeError"

-----------------------------------------------------------------------------
(* SpecField: FieldElements of a few small fields are constructed and      *)
(* combined; args holds three elements, an operation takes the first two   *)
(* (or the first) and its result becomes the third                         *)

MaxExp == 7         \* largest exponent and coefficient, in absolute value

FieldPrimes == {2, 5, 7}

FieldElements == UNION {{FieldElement(n, p) : n \in 0 .. (p - 1)} : p \in FieldPrimes}

InitField ==
    /\ args \in [1 .. 3 -> FieldElements]
    /\ stream = <<>>
    /\ call = "init" /\ ret = NoRet
    /\ secret = 0 /\ z = 0 /\ sig = NoSig /\ hmac = EmptyDict
    /\ tx = NoTx /\ cache = EmptyDict /\ script = <<>> /\ ev = NoEval

\* the call returns r: an element returned becomes args[3]
Returned(name, scalars, r) ==
    /\ call' = name
    /\ stream' = scalars
    /\ ret' = r
    /\ args' = IF r.err = "ok" THEN [args EXCEPT ![3] = r.val] ELSE args
    /\ UNCHANGED <<tx, cache, script, secret, z, sig, hmac, ev>>

\* FieldElement(num, prime)
New(num, prime) ==
    \E r \in {FieldElement_init(num, prime)} :
        Returned("FieldElement", <<num, prime>>, r)

\* args[1] + args[2]
Add ==
    \E r \in {FieldElement_add(args[1], args[2])} :
        Returned("add", <<>>, FieldElement_binary(args[1], args[2], r))

\* args[1] - args[2]
Sub ==
    \E r \in {FieldElement_sub(args[1], args[2])} :
        Returned("sub", <<>>, FieldElement_binary(args[1], args[2], r))

\* args[1] * args[2]
Mul ==
    \E r \in {FieldElement_mul(args[1], args[2])} :
        Returned("mul", <<>>, FieldElement_binary(args[1], args[2], r))

\* args[1] / args[2]
TrueDiv ==
    \E r \in {FieldElement_truediv(args[1], args[2])} :
        Returned("truediv", <<>>, FieldElement_binary(args[1], args[2], r))

\* args[1] ** exponent
Pow(exponent) ==
    \E r \in {FieldElement_pow(args[1], exponent)} :
        Returned("pow", <<exponent>>, FieldElement_init(r.num, r.prime))

\* coefficient * args[1]
RMul(coefficient) ==
    \E r \in {FieldElement_rmul(args[1], coefficient)} :
        Returned("rmul", <<coefficient>>, FieldElement_init(r.num, r.prime))

NextField ==
    \/ \E prime \in FieldPrimes : \E num \in (0 - 1) .. prime : New(num, prime)
    \/ Add
    \/ Sub
    \/ Mul
    \/ TrueDiv
    \/ \E exponent \in (0 - MaxExp) .. MaxExp : Pow(exponent)
    \/ \E coefficient \in (0 - MaxExp) .. MaxExp : RMul(coefficient)

SpecField == InitField /\ [][NextField]_vars

-----------------------------------------------------------------------------
(* Properties of FieldElement under SpecField                              *)

InField(a) == 0 <= a.num /\ a.num < a.prime

\* C15: every FieldElement that exists has 0 <= num < prime: the
\* constructor raises for a num outside [0, prime), and add, sub, mul,
\* truediv, pow with any signed exponent and integer-coefficient
\* multiplication return an element of the operands' prime with num in
\* [0, prime).
C15_FieldElementInRange ==
    /\ \A i \in 1 .. 3 : InField(args[i])
    /\ call = "FieldElement" =>
          ret.err = (IF 0 <= stream[1] /\ stream[1] < stream[2] THEN "ok"
                     ELSE "ValueError")
    /\ call \in {"add", "sub", "mul", "truediv"} =>
          IF args[1].prime # args[2].prime THEN ret.err = "TypeError"
          ELSE ret.err = "ok" /\ InField(ret.val) /\ ret.val.prime = args[1].prime
    /\ call \in {"pow", "rmul"} =>
          (ret.err = "ok" /\ InField(ret.val) /\ ret.val.prime = args[1].prime)

\* a negative coefficient has multiplied an element that is not zero
C15_Witness ==
    /\ call = "rmul" /\ stream[1] < 0 /\ args[1].num > 1
    /\ ret.err = "ok" /\ args[3] = ret.val /\ ret.val.num # 0

\* C16: FieldElement arithmetic over a prime p satisfies the field laws:
\* (a+b)+c = a+(b+c); a*(b+c) = a*b + a*c; for a != 0, a / a = 1 and
\* a * a**-1 = 1, a negative exponent giving the inverse of the positive
\* power; and a**(p-1) = 1.  a, b, c are the three elements of args, and
\* the results are those the calls return.
C16_FieldLaws ==
    /\ (args[1].prime = args[2].prime /\ args[2].prime = args[3].prime) =>
          /\ FieldElement_add(FieldElement_add(args[1], args[2]), args[3])
               = FieldElement_add(args[1], FieldElement_add(args[2], args[3]))
          /\ FieldElement_mul(args[1], FieldElement_add(args[2], args[3]))
               = FieldElement_add(FieldElement_mul(args[1], args[2]),
                                  FieldElement_mul(args[1], args[3]))
    /\ \A i \in 1 .. 3 :
          /\ FieldElement_pow(args[i], args[i].prime - 1).num = 1
          /\ args[i].num # 0 =>
                /\ FieldElement_truediv(args[i], args[i]).num = 1
                /\ \A k \in 1 .. MaxExp :
                      FieldElement_mul(FieldElement_pow(args[i], k),
                                       FieldElement_pow(args[i], 0 - k)).num = 1
    /\ (call = "truediv" /\ args[1] = args[2] /\ args[1].num # 0) =>
          (ret.err = "ok" /\ ret.val.num = 1)
    /\ (call = "pow" /\ stream[1] < 0 /\ args[1].num # 0) =>
          /\ ret.err = "ok"
          /\ FieldElement_mul(ret.val, FieldElement_pow(args[1], 0 - stream[1])).num = 1
    /\ (call = "pow" /\ stream[1] = args[1].prime - 1) =>
          (ret.err = "ok" /\ ret.val.num = 1)

\* an element other than 0 and 1 of the field of 7 elements has been
\* divided by itself, and the quotient, 1, is the third element
C16_Witness ==
    /\ call = "truediv" /\ ret.err = "ok"
    /\ args[1] = args[2] /\ args[1].num > 1 /\ args[1].prime = 7
    /\ args[3].num = 1

-----------------------------------------------------------------------------
(* SpecPoint: Points with FieldElement coordinates on three curves are     *)
(* added; args holds three points, the last two on one curve; an addition  *)
(* takes the first two and its result becomes the third                    *)

\* y^2 = x^3 + x and y^2 = x^3 + 3 over the field of 7 elements,
\* y^2 = x^3 + 7 over the field of 11 elements
Curves ==
    {[a |-> FieldElement(1, 7),  b |-> FieldElement(0, 7)],
     [a |-> FieldElement(0, 7),  b |-> FieldElement(3, 7)],
     [a |-> FieldElement(0, 11), b |-> FieldElement(7, 11)]}

\* the points of a curve: the point at infinity and the pairs the
\* constructor accepts
CurvePoints(c) ==
    {Infinity(c.a, c.b)}
      \cup {q \in {Point(FieldElement(x, c.a.prime), FieldElement(y, c.a.prime), c.a, c.b) :
                      x, y \in 0 .. (c.a.prime - 1)} : q.err = "ok"}

AllPoints == UNION {CurvePoints(c) : c \in Curves}

InitPoint ==
    /\ args \in {t \in [1 .. 3 -> AllPoints] : t[2].a = t[3].a /\ t[2].b = t[3].b}
    /\ stream = <<>>
    /\ call = "init" /\ ret = NoRet
    /\ secret = 0 /\ z = 0 /\ sig = NoSig /\ hmac = EmptyDict
    /\ tx = NoTx /\ cache = EmptyDict /\ script = <<>> /\ ev = NoEval

\* the call returns the point r, or raises r.err: a point returned becomes
\* args[3]
ReturnedPoint(name, scalars, r) ==
    /\ call' = name
    /\ stream' = scalars
    /\ ret' = [err |-> r.err, val |-> r]
    /\ args' = IF r.err = "ok" THEN [args EXCEPT ![3] = r] ELSE args
    /\ UNCHANGED <<tx, cache, script, secret, z, sig, hmac, ev>>

\* args[1] + args[2]
AddPoints ==
    \E r \in {Point_add(args[1], args[2])} : ReturnedPoint("add", <<>>, r)

\* the third point is replaced by another point of its curve
Another(q) ==
    /\ q \in AllPoints /\ q.a = args[3].a /\ q.b = args[3].b
    /\ ReturnedPoint("Point", <<>>, q)

NextPoint == AddPoints \/ \E q \in AllPoints : Another(q)

SpecPoint == InitPoint /\ [][NextPoint]_vars

-----------------------------------------------------------------------------
(* Properties of Point addition under SpecPoint                            *)

SameCurve(p, q) == p.a = q.a /\ p.b = q.b

\* O, or a finite point satisfying the curve equation
IsOnCurve(p) == p.err = "ok" /\ (p.inf \/ OnCurve(p.x, p.y, p.a, p.b))

\* -P: the point with the same x and the opposite y
Neg(p) ==
    IF p.inf THEN p
    ELSE [p EXCEPT !.y = FieldElement((p.y.prime - p.y.num) % p.y.prime, p.y.prime)]

-----------------------------------------------------------------------------
(* SpecMul: a Point or an S256Point is multiplied by an integer, one turn  *)
(* of the loop of Point.__rmul__ at a time; args holds the point and its   *)
(* class, stream the coefficient                                           *)

MaxCoef == 14       \* largest coefficient of a Point; an S256Point takes
                    \* coefficients from -MaxCoef to N + MaxCoef

\* the S256Points: the multiples of G
S256Points == {S256Point_rmul(G, k) : k \in 0 .. (N - 1)}

InitMul ==
    /\ args \in {<<q, "Point">> : q \in AllPoints}
                  \cup {<<q, "S256Point">> : q \in S256Points}
    /\ stream = <<>>
    /\ call = "init" /\ ret = NoRet
    /\ ev = NoEval
    /\ secret = 0 /\ z = 0 /\ sig = NoSig /\ hmac = EmptyDict
    /\ tx = NoTx /\ cache = EmptyDict /\ script = <<>>

\* the loop is entered with coef, current = self and result = the identity
EnterLoop(name, coefficient, coef) ==
    /\ ev.state # "run"
    /\ ev' = [coef |-> coef, current |-> args[1],
              result |-> Infinity(args[1].a, args[1].b), state |-> "run"]
    /\ call' = name
    /\ stream' = <<coefficient>>
    /\ ret' = NoRet
    /\ UNCHANGED <<tx, cache, script, secret, z, sig, hmac, args>>

\* coefficient * args[1] for a Point
PointRmul(coefficient) ==
    /\ args[2] = "Point"
    /\ EnterLoop("Point.rmul", coefficient, coefficient)

\* coefficient * args[1] for an S256Point: coef = coefficient % N
S256PointRmul(coefficient) ==
    /\ args[2] = "S256Point"
    /\ EnterLoop("S256Point.rmul", coefficient, coefficient % N)

\* one turn of the loop, or the return of result when coef is 0
RmulStep ==
    /\ ev.state = "run"
    /\ IF ev.coef = 0
       THEN /\ ev' = [ev EXCEPT !.state = "done"]
            /\ ret' = [err |-> ev.result.err, val |-> ev.result]
       ELSE /\ ev' = Point_rmul_step(ev)
            /\ ret' = ret
    /\ UNCHANGED <<tx, cache, script, stream, secret, z, sig, hmac, call, args>>

NextMul ==
    \/ \E coefficient \in 0 .. MaxCoef : PointRmul(coefficient)
    \/ \E coefficient \in (0 - MaxCoef) .. (N + MaxCoef) : S256PointRmul(coefficient)
    \/ RmulStep

SpecMul == InitMul /\ [][NextMul]_vars

\* RmulStep can take a step exactly when a loop is running, and each of its
\* steps changes ev: this is ENABLED <<RmulStep>>_vars
LoopRunning == ev.state = "run"

\* a loop that has been entered keeps running: weak fairness of RmulStep,
\* WF_vars(RmulStep) with its ENABLED written out as LoopRunning
SpecMulFair == SpecMul /\ ([]<>~LoopRunning \/ []<><<RmulStep>>_vars)

-----------------------------------------------------------------------------
(* Properties of scalar multiplication under SpecMulFair                   *)

\* the sum of k copies of p
RECURSIVE RepeatAdd(_, _)
RepeatAdd(p, k) ==
    IF k = 0 THEN Infinity(p.a, p.b) ELSE Point_add(RepeatAdd(p, k - 1), p)

\* what a finished multiplication has returned
ProductReturned ==
    (ev.state = "done") =>
        /\ ret.err = "ok"
        /\ Point_eq(ret.val, Point_rmul(args[1], IF args[2] = "Point" THEN stream[1]
                                                 ELSE stream[1] % N))
        /\ args[2] = "Point" => Point_eq(ret.val, RepeatAdd(args[1], stream[1]))
        /\ args[2] = "S256Point" =>
              /\ Point_eq(ret.val, RepeatAdd(args[1], stream[1] % N))
              /\ stream[1] >= 0 => Point_eq(ret.val, RepeatAdd(args[1], stream[1]))
              /\ Point_eq(ret.val, S256Point_rmul(args[1], stream[1] + N))
              /\ (stream[1] = N /\ args[1] = G) => ret.val.inf

-----------------------------------------------------------------------------
(* SpecFetch: TxFetcher.fetch is called with any transaction id, either    *)
(* net and either value of fresh, and the server answers with any page     *)

\* the serialization of a segwit transaction as a server sends it: marker
\* and flag bytes after the version, witness bytes before the locktime
Segwit(raw) ==
    SubSeq(raw, 1, 4) \o <<0, 1>> \o SubSeq(raw, 5, Len(raw) - 4)
        \o <<1, 1, 9>> \o SubSeq(raw, Len(raw) - 3, Len(raw))

\* response.text of requests.get(url): the hex of a transaction, of a
\* segwit transaction, of a few bytes, or a page that is not hex
Responses ==
    {[hex |-> TRUE, raw |-> Tx_serialize(PrevA).val],
     [hex |-> TRUE, raw |-> Tx_serialize(PrevB).val],
     [hex |-> TRUE, raw |-> Segwit(Tx_serialize(PrevB).val)],
     [hex |-> TRUE, raw |-> <<1, 0, 0>>],
     [hex |-> FALSE, raw |-> <<>>]}

\* the ids fetch is called with
FetchIds == {Tx_id(PrevA).val, Tx_id(PrevB).val, hex(IdUnknown)}

InitFetch ==
    /\ cache = EmptyDict
    /\ call = "init" /\ args = <<>> /\ ret = NoRet
    /\ tx = NoTx /\ hmac = EmptyDict
    /\ secret = 0 /\ z = 0 /\ sig = NoSig
    /\ script = <<>> /\ stream = <<>> /\ ev = NoEval

\* TxFetcher.fetch(tx_id, testnet, fresh), the server answering response
Fetch(tx_id, testnet, fresh, response) ==
    \E r \in {TxFetcher_fetch(cache, tx_id, testnet, fresh, response)} :
        /\ call' = "fetch"
        /\ args' = <<tx_id, testnet, fresh, response>>
        /\ ret' = [err |-> r.err, val |-> r.val]
        /\ cache' = r.cache
        /\ UNCHANGED <<tx, script, stream, secret, z, sig, hmac, ev>>

NextFetch ==
    \E tx_id \in FetchIds, testnet \in BOOLEAN, fresh \in BOOLEAN,
       response \in Responses : Fetch(tx_id, testnet, fresh, response)

SpecFetch == InitFetch /\ [][NextFetch]_vars

-----------------------------------------------------------------------------
(* Properties of TxFetcher.fetch under SpecFetch                           *)

\* the fetch with arguments a downloads (fresh, or a miss on cache c) a page
\* that parses as a transaction whose id is not the one asked for
Mismatch(a, c) ==
    /\ a[3] \/ a[1] \notin DOMAIN c
    /\ a[4].hex /\ Len(a[4].raw) >= 5 /\ a[4].raw[5] # 0
    /\ Tx_parse(Stream(a[4].raw), a[2]).err = "ok"
    /\ Tx_id(Tx_parse(Stream(a[4].raw), a[2]).val).val # a[1]

\* C19: every cache entry stored under key tx_id holds a transaction whose
\* id() is tx_id, after any sequence of fetch calls; a fetch whose
\* downloaded transaction has another id raises ValueError, and a fetch that
\* raises returns no transaction and leaves the cache as it was.
C19_CacheKeysAreIds ==
    /\ [](\A k \in DOMAIN cache : Tx_id(cache[k]) = [err |-> "ok", val |-> k])
    /\ [][/\ Mismatch(args', cache) => ret'.err = "ValueError"
          /\ ret'.err # "ok" => (ret'.val = NoneTx /\ cache' = cache)]_vars

\* a fresh fetch of a cached id has downloaded another transaction and
\* raised, and the entry stored before is still in the cache
C19_Witness ==
    /\ call = "fetch" /\ args[3] /\ args[1] \in DOMAIN cache
    /\ Mismatch(args, cache)
    /\ ret.err = "ValueError"
    /\ Tx_id(cache[args[1]]).val = args[1]

-----------------------------------------------------------------------------
(* Properties of the script that sign_input installs, under SpecSign       *)

\* the DER encoding of a signature: 0x30, the length, then r and s as DER
\* integers (zero is the single byte 0x00)
DerSignatureOf(sg) ==
    LET DerInt0(v) == IF v = 0 THEN <<0>> ELSE DerIntegerOf(v)
        Body(rb, sb) == <<48, Len(rb) + Len(sb) + 4>>
                          \o <<2, Len(rb)>> \o rb \o <<2, Len(sb)>> \o sb
    IN  Body(DerInt0(sg.r), DerInt0(sg.s))

\* the transaction after a sign_input step is the one before it with the
\* script_sig of the signed input replaced by [sigbytes + 0x01, SEC key], and
\* the call ends as verify_input ends on that transaction
InstalledBy(sigbytes) ==
    /\ tx' = [tx EXCEPT
                !.tx_ins[args'[1] + 1].script_sig =
                    <<DataCmd(sigbytes \o <<1>>),
                      DataCmd(S256Point_sec(PrivateKey_point(args'[2]), args'[3]))>>]
    /\ \E v \in {Tx_verify_input(cache', tx', args'[1])} :
          ret' = [err |-> v.err, val |-> v.val]

\* the signature sign_input computes in a step: sign(z) with the k that
\* deterministic_k gave for the z of the input
StepSignature(zh) ==
    PrivateKey_sign(args'[2], zh.val, hmac'[HmacInput(args'[2], zh.val)])

\* C21: sign_input(i, private_key, compressed) changes only
\* tx_ins[i].script_sig, which becomes [DER encoding of the signature of
\* sig_hash(i) followed by 0x01, SEC public key]; version, locktime, the
\* outputs, the other inputs and the rest of input i are unchanged, and the
\* call returns what verify_input(i) gives on the updated transaction.
C21_SignInputInstallsScript ==
    [][call' = "sign_input" =>
          \E zh \in {Tx_sig_hash(cache, tx, args'[1])} :
              zh.err = "ok" => InstalledBy(DerSignatureOf(StepSignature(zh)))]_vars

\* the same with the bytes that Signature.der returns in place of the DER
\* encoding of the signature
C21_InstallsWhatDerReturns ==
    [][call' = "sign_input" =>
          \E zh \in {Tx_sig_hash(cache, tx, args'[1])} :
              zh.err = "ok" =>
                  \E der \in {Signature_der(StepSignature(zh))} :
                      der.err = "ok" /\ InstalledBy(der.val)]_vars

-----------------------------------------------------------------------------
(* SpecThreads: two threads call TxFetcher.fetch, each once, and the       *)
(* interpreter may switch threads between any two steps of the method.     *)
(* The cache holds references: cache maps a hex txid to an object, and     *)
(* stream is the heap, the Tx objects allocated so far by their number.    *)
(* args lists the requests sent: <<thread, tx_id, testnet>>.               *)

Threads == {1, 2}

\* a thread outside fetch
Idle == [pc |-> "idle", tx_id |-> <<>>, testnet |-> FALSE, tx |-> NoneTx,
         obj |-> 0, ret |-> NoRet]

InitThreads ==
    /\ ev = [t \in Threads |-> Idle]
    /\ cache = EmptyDict
    /\ stream = <<>> /\ args = <<>>
    /\ call = "init" /\ ret = NoRet
    /\ tx = NoTx /\ hmac = EmptyDict
    /\ secret = 0 /\ z = 0 /\ sig = NoSig /\ script = <<>>

\* thread t calls TxFetcher.fetch(tx_id, testnet)
Call(t, tx_id, testnet) ==
    /\ ev[t].pc = "idle"
    /\ ev' = [ev EXCEPT ![t] = [Idle EXCEPT !.pc = "check", !.tx_id = tx_id,
                                            !.testnet = testnet]]
    /\ call' = "fetch"
    /\ UNCHANGED <<tx, cache, script, stream, secret, z, sig, hmac, args, ret>>

\* if fresh or (tx_id not in cls.cache), with fresh = False
Check(t) ==
    /\ ev[t].pc = "check"
    /\ ev' = [ev EXCEPT ![t].pc = IF ev[t].tx_id \notin DOMAIN cache THEN "get"
                                  ELSE "load"]
    /\ UNCHANGED <<tx, cache, script, stream, secret, z, sig, hmac, call, args, ret>>

\* requests.get(url), then the parse and the comparison of the id, which
\* touch only the locals of the thread
Get(t) ==
    /\ ev[t].pc = "get"
    /\ \E d \in {Downloaded(ev[t].tx_id, ev[t].testnet,
                            Network(ev[t].tx_id, ev[t].testnet))} :
          ev' = [ev EXCEPT ![t].pc = IF d.err = "ok" THEN "store" ELSE "raised",
                           ![t].tx = d.val,
                           ![t].ret = [err |-> d.err, val |-> NoneTx]]
    /\ args' = Append(args, <<t, ev[t].tx_id, ev[t].testnet>>)
    /\ UNCHANGED <<tx, cache, script, stream, secret, z, sig, hmac, call, ret>>

\* cls.cache[tx_id] = tx
Store(t) ==
    /\ ev[t].pc = "store"
    /\ stream' = Append(stream, ev[t].tx)
    /\ cache' = DictPut(cache, ev[t].tx_id, Len(stream) + 1)
    /\ ev' = [ev EXCEPT ![t].pc = "load"]
    /\ UNCHANGED <<tx, script, secret, z, sig, hmac, call, args, ret>>

\* cls.cache[tx_id] of the assignment "cls.cache[tx_id].testnet = testnet"
Load(t) ==
    /\ ev[t].pc = "load"
    /\ ev' = [ev EXCEPT ![t].pc = "setattr", ![t].obj = cache[ev[t].tx_id]]
    /\ UNCHANGED <<tx, cache, script, stream, secret, z, sig, hmac, call, args, ret>>

\* .testnet = testnet on the object loaded
SetAttr(t) ==
    /\ ev[t].pc = "setattr"
    /\ stream' = [stream EXCEPT ![ev[t].obj].testnet = ev[t].testnet]
    /\ ev' = [ev EXCEPT ![t].pc = "return"]
    /\ UNCHANGED <<tx, cache, script, secret, z, sig, hmac, call, args, ret>>

\* return cls.cache[tx_id]: ret keeps the object as the caller receives it
Return(t) ==
    /\ ev[t].pc = "return"
    /\ ev' = [ev EXCEPT ![t].pc = "done",
                        ![t].ret = [err |-> "ok",
                                    val |-> stream[cache[ev[t].tx_id]]]]
    /\ ret' = [err |-> "ok", val |-> stream[cache[ev[t].tx_id]]]
    /\ UNCHANGED <<tx, cache, script, stream, secret, z, sig, hmac, call, args>>

NextThreads ==
    \E t \in Threads :
        \/ \E tx_id \in FetchIds, testnet \in BOOLEAN : Call(t, tx_id, testnet)
        \/ Check(t)
        \/ Get(t)
        \/ Store(t)
        \/ Load(t)
        \/ SetAttr(t)
        \/ Return(t)

SpecThreads == InitThreads /\ [][NextThreads]_vars

-----------------------------------------------------------------------------
(* Properties of concurrent fetch calls under SpecThreads                  *)

\* thread t has found a miss and has not stored the entry yet
Filling(t) == ev[t].pc \in {"get", "store"}

\* C22: the cache is guarded when fetch is called from several threads:
\* two concurrent calls for the same uncached txid are never both between
\* the check for a miss and the fill, so the entry is requested and stored
\* by at most one of them, and each caller receives a transaction whose
\* testnet flag is the flag it passed.
C22_FetchGuarded ==
    /\ \A t, u \in Threads :
          (t # u /\ Filling(t) /\ Filling(u)) => ev[t].tx_id # ev[u].tx_id
    /\ Len(stream) = Cardinality(DOMAIN cache)
    /\ \A t \in Threads :
          ev[t].pc = "done" => ev[t].ret.val.testnet = ev[t].testnet

\* whatever the interleaving, an entry of the cache is a transaction whose
\* id() is its key, and a call that returns gives the entry of the id asked
C22_EntriesKeepIds ==
    /\ \A k \in DOMAIN cache : Tx_id(stream[cache[k]]) = [err |-> "ok", val |-> k]
    /\ \A t \in Threads :
          ev[t].pc = "done" => Tx_id(ev[t].ret.val).val = ev[t].tx_id

-----------------------------------------------------------------------------
(* SpecK: PrivateKey.deterministic_k is called with any secret and any z,  *)
(* and its rejection loop runs one turn per step.  HMAC-SHA256 is a small  *)
(* stand-in digest with more values than N, so that candidates of 0 and of *)
(* N and above come out; K = 32 bytes 0x00 and V = 32 bytes 0x01 are the   *)
(* numbers 0 and 1.                                                        *)

DigestRange == 40   \* number of distinct digests of the HMAC stand-in
MaxTurns == 3       \* rejected candidates in one call

\* hmac.new(key, msg, sha256).digest()
hmac_new(key, msg) == Fold(<<key>> \o msg, 13, 41) % DigestRange

\* z as int.from_bytes of a 32-byte hash gives it: 2^256 lies between N and
\* 2 * N
ZValues == 0 .. (2 * N - 1)

Secrets == {1, Key1, N - 1}

\* deterministic_k up to the loop: z less N when z > N, then K and V after
\* the four HMAC steps
KStart(e, zz) ==
    LET zfed == HmacInput(e, zz)[2]
        V2(k2, v1) == [state |-> "loop", k |-> k2, v |-> hmac_new(k2, <<v1>>),
                       zfed |-> zfed, candidate |-> 0 - 1, turns |-> 0]
        K2(k1, v1) == V2(hmac_new(k1, <<v1, 1, e, zfed>>), v1)
        V1(k1) == K2(k1, hmac_new(k1, <<1>>))
    IN  V1(hmac_new(0, <<1, 0, e, zfed>>))

\* one turn of "while True": the next V is the candidate; it is returned
\* when 1 <= candidate < N, and K and V are updated otherwise
KTurn(f) ==
    LET Rejected(c, k) == [f EXCEPT !.k = k, !.v = hmac_new(k, <<c>>),
                                    !.candidate = c, !.turns = f.turns + 1]
        Body(c) == IF c >= 1 /\ c < N
                   THEN [f EXCEPT !.state = "done", !.v = c, !.candidate = c]
                   ELSE Rejected(c, hmac_new(f.k, <<c, 0>>))
    IN  Body(hmac_new(f.k, <<f.v>>))

InitK ==
    /\ secret \in Secrets /\ z \in ZValues
    /\ ev = [state |-> "idle", k |-> 0, v |-> 1, zfed |-> 0, candidate |-> 0 - 1,
             turns |-> 0]
    /\ call = "init" /\ args = <<>> /\ ret = NoRet
    /\ tx = NoTx /\ cache = EmptyDict /\ hmac = EmptyDict
    /\ sig = NoSig /\ script = <<>> /\ stream = <<>>

\* PrivateKey(e).deterministic_k(zz) is called
DeterministicK(e, zz) ==
    /\ ev.state # "loop"
    /\ secret' = e /\ z' = zz
    /\ ev' = KStart(e, zz)
    /\ call' = "deterministic_k" /\ args' = <<zz>>
    /\ ret' = NoRet
    /\ UNCHANGED <<tx, cache, script, stream, sig, hmac>>

\* a turn of the loop; stream lists the candidates rejected in this call
LoopTurn ==
    /\ ev.state = "loop"
    /\ \E f \in {KTurn(ev)} :
          /\ f.state = "loop" => ev.turns < MaxTurns
          /\ ev' = f
          /\ ret' = IF f.state = "done" THEN [err |-> "ok", val |-> f.candidate]
                    ELSE ret
    /\ UNCHANGED <<tx, cache, script, stream, secret, z, sig, hmac, call, args>>

NextK ==
    \/ \E e \in Secrets, zz \in ZValues : DeterministicK(e, zz)
    \/ LoopTurn

SpecK == InitK /\ [][NextK]_vars

-----------------------------------------------------------------------------
(* Properties of deterministic_k under SpecK                               *)

\* the candidate the loop returns when started from frame f
RECURSIVE KRun(_)
KRun(f) == IF f.state = "done" \/ f.turns > MaxTurns THEN f.candidate
           ELSE KRun(KTurn(f))

\* what the loop does with its candidates: it returns only a k with 1 <= k < N, a candidate outside that
\* range changes K and V and the loop goes on, and the k returned is the one
\* a call with the same secret and z returns, whatever was called before
KLoop ==
    /\ [](ev.state = "done" =>
            /\ ret.err = "ok" /\ ret.val >= 1 /\ ret.val < N
            /\ ret.val = KRun(KStart(secret, z)))
    /\ [][(ev.state = "loop" /\ ev'.state = "loop" /\ ev'.turns = ev.turns + 1)
             => /\ ev'.candidate = 0 \/ ev'.candidate >= N
                /\ ev'.k = hmac_new(ev.k, <<ev'.candidate, 0>>)
                /\ ev'.v = hmac_new(ev'.k, <<ev'.candidate>>)]_vars

\* C23: deterministic_k reduces z modulo N whenever z >= N, so the value
\* fed to the HMAC steps lies in [0, N) for every z below 2^256; it returns
\* only a candidate k with 1 <= k < N, a rejected candidate updates K and V
\* and the loop goes on; and the result depends only on (secret, z).
C23_DeterministicK ==
    /\ [](ev.state # "idle" => (ev.zfed = z % N /\ ev.zfed \in 0 .. (N - 1)))
    /\ KLoop

\* the same with the reduction the source makes: N is subtracted when z > N
C23_ReducesAboveN ==
    /\ [](ev.state # "idle" => ev.zfed = IF z > N THEN z - N ELSE z)
    /\ KLoop

\* a call has rejected a candidate and then returned a k
C23_RejectedThenReturned ==
    ev.state = "done" /\ ev.turns >= 1 /\ ret.val \in 1 .. (N - 1)

=============================================================================
